---- MODULE Spec2Model ----
(***************************************************************************)
(* Verification model of the loda-rust core:                               *)
(*   - the loop node of the virtual machine (NodeLoopConstant),            *)
(*   - the mov nodes (NodeMoveAdvanced, NodeMoveRegister,                  *)
(*     NodeMoveConstant),                                                  *)
(*   - the genome mutation engine (Genome and its mutation operators),     *)
(*   - the search scheduler (TraverseProgramsAndModels::                   *)
(*     run_arc_competition, BatchPlan, BatchState).                        *)
(* Each part has its own specification over the shared variables.          *)
(***************************************************************************)
EXTENDS Integers, Sequences, FiniteSets, TLC

VARIABLES
    state,          \* ProgramState: the register file, register index -> value
    old_state,      \* NodeLoopConstant::eval: the snapshot `old_state`
    cycles,         \* NodeLoopConstant::eval: the counter `cycles`
    loop_pc,        \* position of NodeLoopConstant::eval: idle/running/exit/panic
    loop_node,      \* the NodeLoopConstant being evaluated
    initial_state,  \* the ProgramState handed to NodeLoopConstant::eval
    bodies_run,     \* number of calls of self.program.run made by eval
    mov_node,       \* the mov node evaluated last
    mov_result,     \* what its eval did: none / Ok / panic
    mov_before,     \* the ProgramState handed to that eval
    genome_vec,     \* Genome.genome_vec: the rows (GenomeItem) of the genome
    message_vec,    \* Genome.message_vec: the log of mutation messages
    context,        \* GenomeMutateContext: which tables have been loaded
    genome_start,   \* genome_vec when the genome was set up
    genome_before,  \* genome_vec when the last operator was called
    last_call,      \* the operator called last, and whether through mutate
    last_ok,        \* the bool that call returned
    calls,          \* number of operator calls made so far
    program_item_vec,   \* TraverseProgramsAndModels.program_item_vec: the seed pool
    scheduled_model_item_vec,   \* BatchPlan: the unsolved targets
    scheduled_program_item_vec, \* BatchPlan: the candidates of the batch
    remove_model_items,         \* BatchState: targets solved in the batch
    discovered_program_item_vec, \* BatchState: new programs that solved a target
    current_tasks,      \* BatchState: the task entries, one target name each
    terminate_due_to_timeout,   \* BatchState: the deadline has been detected
    mutation_index,     \* run_arc_competition: the round counter
    bloom,              \* run_arc_competition: the keys put into the Bloom filter
    search_pc,          \* position of run_arc_competition
    model_index,        \* run_one_batch: position of the loop over the targets
    program_index,      \* run_one_batch: position of the loop over the candidates
    clock,              \* execute_start_time.elapsed()
    template_index,     \* create_mutations_of_all_programs: position in the pool
    iteration,          \* create_mutations_of_program: the loop variable
    result_program_item_vec, \* create_mutations_of_program: its result so far
    mutated_programs,   \* create_mutations_of_all_programs: its result so far
    random_seed,        \* create_mutations_of_program: the seed used last
    files_saved,        \* number of program files written by save_solution
    last_run,           \* the execution made last and what became of it
    save_log,           \* the calls of save_solution made so far
    returned_keys,      \* keys of the candidates create_mutations_of_program returned
    last_created,       \* the call of create_mutations_of_program finished last
    image,              \* the Image handed to ImageToText::convert
    text,               \* the string ImageToText::convert returned
    actual,             \* what TextToImage::convert returned for it
    prompt_pc           \* where the conversion of the image is

loop_vars == <<old_state, cycles, loop_pc, loop_node, initial_state, bodies_run>>
mov_vars == <<mov_node, mov_result, mov_before>>
genome_vars == <<genome_vec, message_vec, context, genome_start, genome_before,
                 last_call, last_ok, calls>>
search_vars == <<program_item_vec, scheduled_model_item_vec,
                 scheduled_program_item_vec, remove_model_items,
                 discovered_program_item_vec, current_tasks,
                 terminate_due_to_timeout, mutation_index, bloom, search_pc,
                 model_index, program_index, clock, template_index, iteration,
                 result_program_item_vec, mutated_programs, random_seed,
                 files_saved, last_run, save_log, returned_keys, last_created>>
prompt_vars == <<image, text, actual, prompt_pc>>

vars == <<state, loop_vars, mov_vars, genome_vars, search_vars, prompt_vars>>

----------------------------------------------------------------------------
(* Bounds of the model *)

\* Number of registers in the register file of the modelled ProgramState.
NumRegisters == 3

\* Largest initial value of register $0 in the loop specification.
MaxStart == 1002

\* Largest initial value of the other registers, and of every register in the
\* mov specification.
MaxOther == 2

----------------------------------------------------------------------------
(* ProgramState *)

Registers == 0..(NumRegisters - 1)

\* A register file of zeros: ProgramState::new
ZeroState == [r \in Registers |-> 0]

\* ProgramState::get_register_value_ref
get_register_value_ref(st, index) == st[index]

\* ProgramState::set_register_value
set_register_value(st, index, value) == [st EXCEPT ![index] = value]

\* ProgramState::is_less: the window [register, register+range_length) of `st`
\* compared with the same window of `other`, first differing register decides;
\* a register that went negative is not a decrease.
RECURSIVE is_less_from(_, _, _, _)
is_less_from(st, other, index, remaining) ==
    IF remaining = 0 \/ index \notin Registers THEN FALSE
    ELSE IF st[index] < 0 THEN FALSE
    ELSE IF st[index] < other[index] THEN TRUE
    ELSE IF st[index] > other[index] THEN FALSE
    ELSE is_less_from(st, other, index + 1, remaining - 1)

is_less(st, other, register, range_length) ==
    is_less_from(st, other, register, range_length)

----------------------------------------------------------------------------
(* mov nodes: node_move.rs *)

\* NodeMoveRegister::eval, lines 87-92: returns Ok(()), the state after it.
NodeMoveRegister_eval_SourceAndTargetMixedUp(st, target, source) ==
    set_register_value(st, source, get_register_value_ref(st, target))

NodeMoveRegister_eval(st, target, source) ==
    set_register_value(st, target, get_register_value_ref(st, source))

\* NodeMoveConstant::eval, lines 128-132: returns Ok(()), the state after it.
NodeMoveConstant_eval(st, target, source) ==
    set_register_value(st, target, source)

\* NodeMoveAdvanced::eval, lines 23-49: the outcome and the state after it.
\* An Indirect source or target reaches a panic!, which is no return value.
NodeMoveAdvanced_eval(st, target, source) ==
    IF source.register_type = "Indirect"
    THEN [outcome |-> "panic", message |-> "boom indirect source", state |-> st]
    ELSE LET tmp_value == get_register_value_ref(st, source.register_index)
         IN IF target.register_type = "Indirect"
            THEN [outcome |-> "panic", message |-> "boom indirect target", state |-> st]
            ELSE [outcome |-> "Ok", message |-> "",
                  state |-> set_register_value(st, target.register_index, tmp_value)]

----------------------------------------------------------------------------
(* Instructions of a loop body, Program::run *)

Ins(op, target, source_type, source) ==
    [op |-> op, target |-> target, source_type |-> source_type, source |-> source]

\* The value of the source operand of an instruction.
SourceOperand(st, ins) ==
    IF ins.source_type = "Constant" THEN ins.source
    ELSE get_register_value_ref(st, ins.source)

\* Node::eval of one instruction: mov through the mov nodes above, add and sub
\* as plain integer arithmetic on the target register.
Node_eval(st, ins) ==
    CASE ins.op = "mov" /\ ins.source_type = "Constant" ->
            NodeMoveConstant_eval(st, ins.target, ins.source)
      [] ins.op = "mov" /\ ins.source_type = "Direct" ->
            NodeMoveRegister_eval(st, ins.target, ins.source)
      [] ins.op = "add" ->
            set_register_value(st, ins.target,
                get_register_value_ref(st, ins.target) + SourceOperand(st, ins))
      [] ins.op = "sub" ->
            set_register_value(st, ins.target,
                get_register_value_ref(st, ins.target) - SourceOperand(st, ins))

\* Program::run: the instructions of the program evaluated in order.
RECURSIVE Program_run(_, _)
Program_run(program, st) ==
    IF program = <<>> THEN st
    ELSE Program_run(Tail(program), Node_eval(st, Head(program)))

----------------------------------------------------------------------------
(* NodeLoopConstant: node_loop_advanced.rs *)

\* `if cycles > 1000`, line 60.
LoopCycleLimit == 1000

LoopNode(register, range_length, program) ==
    [register |-> register, range_length |-> range_length, program |-> program]

\* lpb $0,1 / sub $0,1 / lpe
CountdownLoop == LoopNode(0, 1, <<Ins("sub", 0, "Constant", 1)>>)

\* The loops the model evaluates.
LoopNodes ==
    { CountdownLoop,
      \* lpb $0,2 / sub $0,1 / add $1,2 / lpe
      LoopNode(0, 2, <<Ins("sub", 0, "Constant", 1), Ins("add", 1, "Constant", 2)>>),
      \* lpb $0,1 / add $0,1 / mov $1,7 / lpe: the first iteration does not decrease
      LoopNode(0, 1, <<Ins("add", 0, "Constant", 1), Ins("mov", 1, "Constant", 7)>>),
      \* lpb $1,1 / sub $1,1 / mov $2,$1 / add $0,$2 / lpe
      LoopNode(1, 1, <<Ins("sub", 1, "Constant", 1), Ins("mov", 2, "Direct", 1),
                       Ins("add", 0, "Direct", 2)>>),
      \* lpb $1,2 / sub $2,1 / lpe: only the second register of the window decreases
      LoopNode(1, 2, <<Ins("sub", 2, "Constant", 1)>>),
      \* lpb $1,1 / mov $1,0 / add $2,1 / lpe: decreases once, then stays equal
      LoopNode(1, 1, <<Ins("mov", 1, "Constant", 0), Ins("add", 2, "Constant", 1)>>) }

\* The loops whose number of iterations grows with $0.
LongLoop(node) == node.register = 0 /\ node.program[1].op = "sub"

\* line 60: `cycles > 1000`, with cycles already incremented.
LoopLimitExceeded_NoLimit(c) == FALSE

LoopLimitExceeded_OffByOne(c) == c >= LoopCycleLimit

LoopLimitExceeded(c) == c > LoopCycleLimit

\* line 54: `*state = old_state.clone()`, the state eval leaves on a normal exit.
LoopExitState_NotRestored(old, new) == new

LoopExitState(old, new) == old

\* lines 59-64: what happens after a strictly decreasing iteration.
LoopAfterDecrease(c) == IF LoopLimitExceeded(c) THEN "panic" ELSE "running"

\* One pass through the `loop { ... }` of NodeLoopConstant::eval, lines 36-68.
LoopIteration ==
    /\ loop_pc = "running"
    /\ LET old == state
           new == Program_run(loop_node.program, state)
           less == is_less(new, old, loop_node.register, loop_node.range_length)
       IN /\ old_state' = old
          /\ bodies_run' = bodies_run + 1
          /\ IF ~less
             THEN /\ state' = LoopExitState(old, new)
                  /\ cycles' = cycles
                  /\ loop_pc' = "exit"
             ELSE /\ state' = new
                  /\ cycles' = cycles + 1
                  /\ loop_pc' = LoopAfterDecrease(cycles + 1)
    /\ UNCHANGED <<loop_node, initial_state, mov_vars, genome_vars, search_vars, prompt_vars>>

\* The loop variables while no loop is evaluated.
LoopIdle ==
    /\ loop_node = CountdownLoop
    /\ old_state = ZeroState
    /\ initial_state = ZeroState
    /\ cycles = 0
    /\ bodies_run = 0
    /\ loop_pc = "idle"

IdleMov == [kind |-> "none"]

\* The mov variables while no mov node is evaluated.
MoveIdle ==
    /\ mov_node = IdleMov
    /\ mov_result = "none"
    /\ mov_before = ZeroState

NoCall == [operator |-> "none", via_mutate |-> FALSE]

\* The genome variables while no genome is mutated.
GenomeIdle ==
    /\ genome_vec = <<>>
    /\ message_vec = <<>>
    /\ context = [has_histogram_instruction_constant |-> FALSE]
    /\ genome_start = <<>>
    /\ genome_before = <<>>
    /\ last_call = NoCall
    /\ last_ok = FALSE
    /\ calls = 0

NoRun == [model |-> 0, program |-> 0, solved_before |-> FALSE]

NoCreated == [called |-> FALSE]

NoImage == [width |-> 0, height |-> 0, pixels |-> <<>>]

NoActual == [ok |-> FALSE]

\* The variables of the image conversion while no image is converted.
PromptIdle ==
    /\ image = NoImage
    /\ text = <<>>
    /\ actual = NoActual
    /\ prompt_pc = "idle"

\* The scheduler variables while no search is run.
SearchIdle ==
    /\ program_item_vec = <<>>
    /\ scheduled_model_item_vec = <<>>
    /\ scheduled_program_item_vec = <<>>
    /\ remove_model_items = <<>>
    /\ discovered_program_item_vec = <<>>
    /\ current_tasks = <<>>
    /\ terminate_due_to_timeout = FALSE
    /\ mutation_index = 0
    /\ bloom = {}
    /\ search_pc = "idle"
    /\ model_index = 0
    /\ program_index = 0
    /\ clock = 0
    /\ template_index = 0
    /\ iteration = 0
    /\ result_program_item_vec = <<>>
    /\ mutated_programs = <<>>
    /\ random_seed = 0
    /\ files_saved = 0
    /\ last_run = NoRun
    /\ save_log = <<>>
    /\ returned_keys = <<>>
    /\ last_created = NoCreated

LoopInit ==
    /\ loop_node \in LoopNodes
    /\ \E n \in 0..MaxStart, others \in [Registers -> 0..MaxOther] :
          /\ n > MaxOther + 1 =>
                (LongLoop(loop_node) /\ \A r \in Registers : others[r] = 0)
          /\ state = [r \in Registers |-> IF r = 0 THEN n ELSE others[r]]
    /\ old_state = state
    /\ initial_state = state
    /\ cycles = 0
    /\ bodies_run = 0
    /\ loop_pc = "running"
    /\ MoveIdle
    /\ GenomeIdle
    /\ SearchIdle
    /\ PromptIdle

LoopNext == LoopIteration

SpecLoop == LoopInit /\ [][LoopNext]_vars

----------------------------------------------------------------------------
(* Evaluation of single mov nodes *)

RegisterTypes == {"Direct", "Indirect"}

\* RegisterIndexAndType
Operand(register_index, register_type) ==
    [register_index |-> register_index, register_type |-> register_type]

\* The constants a mov $t,c node is built with.
MovConstants == (0 - 1)..(MaxOther + 1)

\* NodeMoveAdvanced::eval called on the current state. A panic ends the process.
EvalMoveAdvanced ==
    /\ mov_result # "panic"
    /\ \E t \in Registers, s \in Registers, tt \in RegisterTypes, st \in RegisterTypes :
          LET r == NodeMoveAdvanced_eval(state, Operand(t, tt), Operand(s, st))
          IN /\ mov_node' = [kind |-> "Advanced", target |-> Operand(t, tt),
                             source |-> Operand(s, st)]
             /\ mov_before' = state
             /\ mov_result' = r.outcome
             /\ state' = r.state
    /\ UNCHANGED <<loop_vars, genome_vars, search_vars, prompt_vars>>

\* NodeMoveRegister::eval called on the current state.
EvalMoveRegister ==
    /\ mov_result # "panic"
    /\ \E t \in Registers, s \in Registers :
          /\ mov_node' = [kind |-> "Register", target |-> t, source |-> s]
          /\ mov_before' = state
          /\ mov_result' = "Ok"
          /\ state' = NodeMoveRegister_eval(state, t, s)
    /\ UNCHANGED <<loop_vars, genome_vars, search_vars, prompt_vars>>

\* NodeMoveConstant::eval called on the current state.
EvalMoveConstant ==
    /\ mov_result # "panic"
    /\ \E t \in Registers, c \in MovConstants :
          /\ mov_node' = [kind |-> "Constant", target |-> t, source |-> c]
          /\ mov_before' = state
          /\ mov_result' = "Ok"
          /\ state' = NodeMoveConstant_eval(state, t, c)
    /\ UNCHANGED <<loop_vars, genome_vars, search_vars, prompt_vars>>

MoveInit ==
    /\ state \in [Registers -> 0..MaxOther]
    /\ LoopIdle
    /\ MoveIdle
    /\ GenomeIdle
    /\ SearchIdle
    /\ PromptIdle

MoveNext == EvalMoveAdvanced \/ EvalMoveRegister \/ EvalMoveConstant

SpecMove == MoveInit /\ [][MoveNext]_vars

----------------------------------------------------------------------------
(* GenomeItem *)

\* i32::MAX and i32::MIN, the limits tested by the increment and decrement
\* operators.
I32_MAX == 2147483647

I32_MIN == (0 - 2147483647) - 1

\* Genome::MUTATE_RETRIES
MUTATE_RETRIES == 3

\* The InstructionId values of the model.
InstructionIds ==
    {"Move", "Add", "Divide", "DivideIf", "Modulo", "EvalSequence", "LoopBegin",
     "LoopEnd", "UnofficialLoopBeginSubtract", "UnofficialFunction"}

\* The match arms that skip rows whose source is not a plain constant operand.
EvalLoopFunctionIds ==
    {"EvalSequence", "LoopBegin", "LoopEnd", "UnofficialFunction",
     "UnofficialLoopBeginSubtract"}

\* The same arms without EvalSequence.
LoopFunctionIds ==
    {"LoopBegin", "LoopEnd", "UnofficialFunction", "UnofficialLoopBeginSubtract"}

\* The match arms that skip the loop instructions lpb, lpe and lps.
LoopIds == {"LoopBegin", "LoopEnd", "UnofficialLoopBeginSubtract"}

\* A row with all its fields.
Item(enabled, mutation_locked, instruction_id, target_type, target_value, source_type, source_value) ==
    [enabled |-> enabled, mutation_locked |-> mutation_locked,
     instruction_id |-> instruction_id,
     target_type |-> target_type, target_value |-> target_value,
     source_type |-> source_type, source_value |-> source_value]

\* GenomeItem::new: an enabled row that is not mutation_locked.
GenomeItem_new(instruction_id, target_type, target_value, source_type, source_value) ==
    Item(TRUE, FALSE, instruction_id, target_type, target_value, source_type,
         source_value)

\* GenomeItem::set_instruction: refuses lpb, lpe, seq and the unofficial
\* instructions, which need special attention to the source value, and
\* leaves a row that is a loop begin or loop end as it is.
GenomeItem_set_instruction(item, new_instruction_id) ==
    IF new_instruction_id \in EvalLoopFunctionIds \/ item.instruction_id \in LoopIds
    THEN [item |-> item, ok |-> FALSE]
    ELSE [item |-> [item EXCEPT !.instruction_id = new_instruction_id], ok |-> TRUE]

\* GenomeItem::mutate_swap_source_target_value: nothing to swap when both
\* values are the same.
GenomeItem_mutate_swap_source_target_value(item) ==
    IF item.target_value = item.source_value
    THEN [item |-> item, ok |-> FALSE]
    ELSE [item |-> [item EXCEPT !.target_value = item.source_value,
                                !.source_value = item.target_value],
          ok |-> TRUE]

\* GenomeItem::mutate_instruction_seq with the program id the context chose
\* (<<>> when it has none): false when there is none or it is the current one.
GenomeItem_mutate_instruction_seq(item, chosen) ==
    IF chosen = <<>> \/ item.instruction_id # "EvalSequence"
    THEN [item |-> item, ok |-> FALSE]
    ELSE IF chosen[1] = item.source_value
    THEN [item |-> item, ok |-> FALSE]
    ELSE [item |-> [item EXCEPT !.source_value = chosen[1]], ok |-> TRUE]

----------------------------------------------------------------------------
(* GenomeMutateContext: the answers of the corpus statistics *)

\* Bounds of what the tables of the context hold.
\* Largest constant and register index the histograms suggest (the smallest
\* is -1, which the operators must reject as a register index).
MaxSuggested == 1

\* Number of program ids the popularity index offers.
NumProgramIds == 3

SuggestedValues == (0 - 1)..MaxSuggested

\* The program ids the popularity index offers for a seq instruction.
ProgramIds == {40 + k : k \in 0..(NumProgramIds - 1)}

\* The instructions suggest_instruction answers with.
SuggestedInstructionIds == {"Add", "Divide", "LoopBegin", "EvalSequence"}

\* An Option: <<>> is None, <<v>> is Some(v).
Options(values) == {<<>>} \cup {<<v>> : v \in values}

\* GenomeMutateContext::choose_constant_with_histogram
choose_constant_with_histogram(ctx, instruction_id) ==
    IF ctx.has_histogram_instruction_constant
    THEN Options(SuggestedValues) ELSE {<<>>}

\* SourceValue and TargetValue
Word(kind, value) == [kind |-> kind, value |-> value]

\* GenomeMutateContext::suggest_source
suggest_source(ctx) ==
    IF ctx.has_suggest_source
    THEN Options({Word(k, v) : k \in {"Constant", "Direct", "Indirect"},
                               v \in SuggestedValues}
                 \cup {Word("ProgramStop", 0), Word("None", 0)})
    ELSE {<<>>}

\* GenomeMutateContext::suggest_target
suggest_target(ctx) ==
    IF ctx.has_suggest_target
    THEN Options({Word(k, v) : k \in {"Direct", "Indirect"}, v \in SuggestedValues}
                 \cup {Word("ProgramStop", 0), Word("None", 0)})
    ELSE {<<>>}

\* GenomeMutateContext::suggest_instruction
suggest_instruction(ctx) ==
    IF ctx.has_suggest_instruction
    THEN Options(SuggestedInstructionIds) ELSE {<<>>}

\* The rows the suggested lines parse to (ParsedProgram::parse_program, then
\* Instruction::to_genome_item of the first instruction).
SuggestedLineItems ==
    { GenomeItem_new("Add", "Direct", 0, "Constant", 1),
      GenomeItem_new("Move", "Direct", 1, "Direct", 0),
      GenomeItem_new("LoopBegin", "Direct", 0, "Constant", 1) }

\* GenomeMutateContext::suggest_line followed by parsing the line: no
\* suggestion, ProgramStart or ProgramStop, a line that does not parse to a
\* row, or a row.
suggest_line(ctx) ==
    IF ctx.has_suggest_line
    THEN {[kind |-> "None"], [kind |-> "ProgramStart"], [kind |-> "ProgramStop"],
          [kind |-> "Unparsable"]}
         \cup {[kind |-> "Line", item |-> it] : it \in SuggestedLineItems}
    ELSE {[kind |-> "None"]}

\* The program ids a category of the popularity index may answer with.
choose_program_id(ctx, category) ==
    IF ctx.has_program_ids THEN Options(ProgramIds) ELSE {<<>>}

\* A context, by which of its tables were loaded.
Context(constant, source, target, instruction, line, programs) ==
    [has_histogram_instruction_constant |-> constant, has_suggest_source |-> source,
     has_suggest_target |-> target, has_suggest_instruction |-> instruction,
     has_suggest_line |-> line, has_program_ids |-> programs]

----------------------------------------------------------------------------
(* Genome: outcomes of the mutation operators *)

\* What one call of an operator leaves: the rows and the returned bool.
Outcome(gv, ok) == [genome_vec |-> gv, ok |-> ok]

\* `return false` before any row was written.
Unchanged(gv) == Outcome(gv, FALSE)

\* Row i replaced by item.
SetRow(gv, i, item) == [gv EXCEPT ![i] = item]

\* Vec::insert(index, item), index counted from 0.
Insert(gv, index, item) ==
    SubSeq(gv, 1, index) \o <<item>> \o SubSeq(gv, index + 1, Len(gv))

\* Vec::swap
Swap(gv, i, j) == [gv EXCEPT ![i] = gv[j], ![j] = gv[i]]

\* The rows eligible for the constant operators, lines 160-179 and 213-232.
ConstantSourceIndexes_IgnoringLocks(gv) ==
    { i \in DOMAIN gv :
        /\ gv[i].source_type = "Constant"
        /\ gv[i].instruction_id \notin EvalLoopFunctionIds }

ConstantSourceIndexes(gv) ==
    { i \in DOMAIN gv :
        /\ ~gv[i].mutation_locked
        /\ gv[i].source_type = "Constant"
        /\ gv[i].instruction_id \notin EvalLoopFunctionIds }

\* The zero tests of lines 192-200 and 245-253.
RejectsZero_WithoutModulo(instruction_id) == instruction_id \in {"Divide", "DivideIf"}

RejectsZero(instruction_id) == instruction_id \in {"Divide", "DivideIf", "Modulo"}

\* Lines 184-203: the chosen row incremented.
IncrementConstantRow_WritesBeforeChecking(gv, i) ==
    IF gv[i].source_value >= I32_MAX THEN Unchanged(gv)
    ELSE Outcome(SetRow(gv, i, [gv[i] EXCEPT !.source_value = @ + 1]),
                 ~(RejectsZero(gv[i].instruction_id) /\ gv[i].source_value + 1 = 0))

IncrementConstantRow_Decrements(gv, i) ==
    LET value == gv[i].source_value
        new_value == value - 1
    IN IF value >= I32_MAX THEN Unchanged(gv)
       ELSE IF RejectsZero(gv[i].instruction_id) /\ new_value = 0 THEN Unchanged(gv)
       ELSE Outcome(SetRow(gv, i, [gv[i] EXCEPT !.source_value = new_value]), TRUE)

IncrementConstantRow(gv, i) ==
    LET value == gv[i].source_value
        new_value == value + 1
    IN IF value >= I32_MAX THEN Unchanged(gv)
       ELSE IF RejectsZero(gv[i].instruction_id) /\ new_value = 0 THEN Unchanged(gv)
       ELSE Outcome(SetRow(gv, i, [gv[i] EXCEPT !.source_value = new_value]), TRUE)

\* Genome::increment_source_value_where_type_is_constant
increment_source_value_where_type_is_constant(gv) ==
    LET indexes == ConstantSourceIndexes(gv)
    IN IF indexes = {} THEN {Unchanged(gv)}
       ELSE {IncrementConstantRow(gv, i) : i \in indexes}

\* Lines 237-256: the chosen row decremented.
DecrementConstantRow(gv, i) ==
    LET value == gv[i].source_value
        new_value == value - 1
    IN IF value <= I32_MIN THEN Unchanged(gv)
       ELSE IF RejectsZero(gv[i].instruction_id) /\ new_value = 0 THEN Unchanged(gv)
       ELSE Outcome(SetRow(gv, i, [gv[i] EXCEPT !.source_value = new_value]), TRUE)

\* Genome::decrement_source_value_where_type_is_constant
decrement_source_value_where_type_is_constant(gv) ==
    LET indexes == ConstantSourceIndexes(gv)
    IN IF indexes = {} THEN {Unchanged(gv)}
       ELSE {DecrementConstantRow(gv, i) : i \in indexes}

\* Lines 317-333: up to `tries` picks from the histogram for row i.
RECURSIVE ReplaceConstantTries(_, _, _, _)
ReplaceConstantTries(gv, ctx, i, tries) ==
    IF tries = 0 THEN {Unchanged(gv)}
    ELSE UNION {
        IF picked = <<>> THEN {Unchanged(gv)}
        ELSE IF picked[1] = gv[i].source_value
        THEN ReplaceConstantTries(gv, ctx, i, tries - 1)
        ELSE {Outcome(SetRow(gv, i, [gv[i] EXCEPT !.source_value = picked[1]]), TRUE)}
        : picked \in choose_constant_with_histogram(ctx, gv[i].instruction_id) }

\* Genome::replace_source_constant_with_histogram
replace_source_constant_with_histogram(gv, ctx) ==
    IF ~ctx.has_histogram_instruction_constant THEN {Unchanged(gv)}
    ELSE LET indexes == ConstantSourceIndexes(gv)
         IN IF indexes = {} THEN {Unchanged(gv)}
            ELSE UNION {ReplaceConstantTries(gv, ctx, i, MUTATE_RETRIES) : i \in indexes}

DirectSourceIndexes_IgnoringSign(gv, positive_only) ==
    { i \in DOMAIN gv :
        /\ ~gv[i].mutation_locked
        /\ gv[i].source_type = "Direct"
        /\ gv[i].instruction_id \notin LoopFunctionIds }

\* The rows eligible for the direct source operators, lines 344-362 and
\* 387-408 (the decrement also skips a register index of 0 or less).
DirectSourceIndexes(gv, positive_only) ==
    { i \in DOMAIN gv :
        /\ ~gv[i].mutation_locked
        /\ gv[i].source_type = "Direct"
        /\ gv[i].instruction_id \notin LoopFunctionIds
        /\ positive_only => gv[i].source_value > 0 }

\* Genome::increment_source_value_where_type_is_direct
increment_source_value_where_type_is_direct(gv) ==
    LET indexes == DirectSourceIndexes(gv, FALSE)
    IN IF indexes = {} THEN {Unchanged(gv)}
       ELSE { IF gv[i].source_value >= I32_MAX THEN Unchanged(gv)
              ELSE Outcome(SetRow(gv, i, [gv[i] EXCEPT !.source_value = @ + 1]), TRUE)
              : i \in indexes }

\* Genome::decrement_source_value_where_type_is_direct
decrement_source_value_where_type_is_direct(gv) ==
    LET indexes == DirectSourceIndexes(gv, TRUE)
    IN IF indexes = {} THEN {Unchanged(gv)}
       ELSE { IF gv[i].source_value <= I32_MIN THEN Unchanged(gv)
              ELSE Outcome(SetRow(gv, i, [gv[i] EXCEPT !.source_value = @ - 1]), TRUE)
              : i \in indexes }

\* The rows eligible for replace_source_with_histogram, lines 453-474.
ReplaceSourceIndexes(gv) ==
    { i \in DOMAIN gv :
        ~gv[i].mutation_locked /\ gv[i].instruction_id \notin EvalLoopFunctionIds }

\* Lines 505-550: up to `tries` suggestions for the source of row i.
RECURSIVE ReplaceSourceTries(_, _, _, _)
ReplaceSourceTries(gv, ctx, i, tries) ==
    IF tries = 0 THEN {Unchanged(gv)}
    ELSE UNION {
        IF suggested = <<>> THEN ReplaceSourceTries(gv, ctx, i, tries - 1)
        ELSE IF suggested[1].kind \notin {"Constant", "Direct", "Indirect"}
        THEN ReplaceSourceTries(gv, ctx, i, tries - 1)
        ELSE IF suggested[1].kind # "Constant" /\ suggested[1].value < 0
        THEN ReplaceSourceTries(gv, ctx, i, tries - 1)
        ELSE IF suggested[1].value = gv[i].source_value
                /\ suggested[1].kind = gv[i].source_type
        THEN ReplaceSourceTries(gv, ctx, i, tries - 1)
        ELSE {Outcome(SetRow(gv, i, [gv[i] EXCEPT !.source_value = suggested[1].value,
                                                  !.source_type = suggested[1].kind]),
                      TRUE)}
        : suggested \in suggest_source(ctx) }

\* Genome::replace_source_with_histogram. prev_word is ProgramStart only for
\* the first row and next_word is ProgramStop only for the last one.
replace_source_with_histogram(gv, ctx) ==
    IF ~ctx.has_suggest_source THEN {Unchanged(gv)}
    ELSE LET indexes == ReplaceSourceIndexes(gv)
         IN IF indexes = {} THEN {Unchanged(gv)}
            ELSE UNION { IF i = 1 /\ i = Len(gv) THEN {Unchanged(gv)}
                         ELSE ReplaceSourceTries(gv, ctx, i, MUTATE_RETRIES)
                         : i \in indexes }

\* The rows eligible for the line operators and for mutate_swap_rows: not
\* locked and not lpb, lpe or lps (lines 562-577 and 1335-1350).
UnlockedPlainIndexes(gv) ==
    { i \in DOMAIN gv :
        ~gv[i].mutation_locked /\ gv[i].instruction_id \notin LoopIds }

\* Lines 607-655 and 701-749: the row a line suggestion yields, <<>> when the
\* operator returns false on it.
SuggestedRow(suggested) ==
    IF suggested.kind # "Line" THEN <<>>
    ELSE IF suggested.item.instruction_id \in LoopIds THEN <<>>
    ELSE <<suggested.item>>

\* Genome::replace_line_with_histogram
replace_line_with_histogram(gv, ctx) ==
    IF ~ctx.has_suggest_line THEN {Unchanged(gv)}
    ELSE LET indexes == UnlockedPlainIndexes(gv)
         IN IF indexes = {} THEN {Unchanged(gv)}
            ELSE UNION {
                IF i = 1 /\ i = Len(gv) THEN {Unchanged(gv)}
                ELSE { IF SuggestedRow(suggested) = <<>> THEN Unchanged(gv)
                       ELSE Outcome(SetRow(gv, i, SuggestedRow(suggested)[1]), TRUE)
                       : suggested \in suggest_line(ctx) }
                : i \in indexes }

\* Genome::insert_line_with_histogram: index1 is drawn from 0..length-1, the
\* row at index1 is the next word, so it is never ProgramStop.
insert_line_with_histogram(gv, ctx) ==
    IF ~ctx.has_suggest_line THEN {Unchanged(gv)}
    ELSE IF Len(gv) < 1 THEN {Unchanged(gv)}
    ELSE { IF SuggestedRow(suggested) = <<>> THEN Unchanged(gv)
           ELSE Outcome(Insert(gv, index1, SuggestedRow(suggested)[1]), TRUE)
           : index1 \in 0..(Len(gv) - 1), suggested \in suggest_line(ctx) }

CopyIndexes_EveryRow(gv) == DOMAIN gv

\* The rows copy_line may copy, lines 758-770.
CopyIndexes(gv) == { i \in DOMAIN gv : gv[i].instruction_id \notin LoopIds }

\* Genome::copy_line
copy_line(gv) ==
    LET indexes == CopyIndexes(gv)
    IN IF indexes = {} THEN {Unchanged(gv)}
       ELSE IF Len(gv) < 1 THEN {Unchanged(gv)}
       ELSE { Outcome(Insert(gv, insert_index, gv[copy_from_index]), TRUE)
              : copy_from_index \in indexes, insert_index \in 0..(Len(gv) - 1) }

\* The rows eligible for the direct target operators, lines 798-810 and
\* 835-850 (the decrement also skips a register index of 0 or less).
DirectTargetIndexes(gv, positive_only) ==
    { i \in DOMAIN gv :
        /\ ~gv[i].mutation_locked
        /\ gv[i].target_type = "Direct"
        /\ gv[i].instruction_id # "LoopEnd"
        /\ positive_only => gv[i].target_value > 0 }

\* Genome::increment_target_value_where_type_is_direct
increment_target_value_where_type_is_direct(gv) ==
    LET indexes == DirectTargetIndexes(gv, FALSE)
    IN IF indexes = {} THEN {Unchanged(gv)}
       ELSE { IF gv[i].target_value >= I32_MAX THEN Unchanged(gv)
              ELSE Outcome(SetRow(gv, i, [gv[i] EXCEPT !.target_value = @ + 1]), TRUE)
              : i \in indexes }

\* Genome::decrement_target_value_where_type_is_direct
decrement_target_value_where_type_is_direct(gv) ==
    LET indexes == DirectTargetIndexes(gv, TRUE)
    IN IF indexes = {} THEN {Unchanged(gv)}
       ELSE { IF gv[i].target_value <= I32_MIN THEN Unchanged(gv)
              ELSE Outcome(SetRow(gv, i, [gv[i] EXCEPT !.target_value = @ - 1]), TRUE)
              : i \in indexes }

\* Lines 923-963: up to `tries` suggestions for the target of row i.
RECURSIVE ReplaceTargetTries(_, _, _, _)
ReplaceTargetTries(gv, ctx, i, tries) ==
    IF tries = 0 THEN {Unchanged(gv)}
    ELSE UNION {
        IF suggested = <<>> THEN ReplaceTargetTries(gv, ctx, i, tries - 1)
        ELSE IF suggested[1].kind \notin {"Direct", "Indirect"}
        THEN ReplaceTargetTries(gv, ctx, i, tries - 1)
        ELSE IF suggested[1].value < 0
        THEN ReplaceTargetTries(gv, ctx, i, tries - 1)
        ELSE IF suggested[1].value = gv[i].target_value
                /\ suggested[1].kind = gv[i].target_type
        THEN ReplaceTargetTries(gv, ctx, i, tries - 1)
        ELSE {Outcome(SetRow(gv, i, [gv[i] EXCEPT !.target_value = suggested[1].value,
                                                  !.target_type = suggested[1].kind]),
                      TRUE)}
        : suggested \in suggest_target(ctx) }

\* Genome::replace_target_with_histogram
replace_target_with_histogram(gv, ctx) ==
    IF ~ctx.has_suggest_target THEN {Unchanged(gv)}
    ELSE IF Len(gv) < 1 THEN {Unchanged(gv)}
    ELSE UNION { IF gv[i].mutation_locked THEN {Unchanged(gv)}
                 ELSE IF gv[i].instruction_id = "LoopEnd" THEN {Unchanged(gv)}
                 ELSE ReplaceTargetTries(gv, ctx, i, MUTATE_RETRIES)
                 : i \in DOMAIN gv }

\* Lines 1005-1025: up to `tries` suggestions for the instruction of row i.
RECURSIVE ReplaceInstructionTries(_, _, _, _)
ReplaceInstructionTries(gv, ctx, i, tries) ==
    IF tries = 0 THEN {Unchanged(gv)}
    ELSE UNION {
        IF suggested = <<>> THEN {Unchanged(gv)}
        ELSE IF suggested[1] = gv[i].instruction_id
        THEN ReplaceInstructionTries(gv, ctx, i, tries - 1)
        ELSE LET r == GenomeItem_set_instruction(gv[i], suggested[1])
             IN IF ~r.ok THEN ReplaceInstructionTries(gv, ctx, i, tries - 1)
                ELSE {Outcome(SetRow(gv, i, r.item), TRUE)}
        : suggested \in suggest_instruction(ctx) }

\* Genome::replace_instruction_with_histogram
replace_instruction_with_histogram(gv, ctx) ==
    IF ~ctx.has_suggest_instruction THEN {Unchanged(gv)}
    ELSE IF Len(gv) < 1 THEN {Unchanged(gv)}
    ELSE UNION { IF gv[i].mutation_locked THEN {Unchanged(gv)}
                 ELSE ReplaceInstructionTries(gv, ctx, i, MUTATE_RETRIES)
                 : i \in DOMAIN gv }

\* rng.gen_range(0..5), lines 1102 and 1432.
RandomRegisters == 0..4

\* Lines 1095-1104: the target register of the inserted row.
InsertedTargets(ctx) ==
    UNION { IF suggested # <<>> /\ suggested[1].kind = "Direct"
            THEN {suggested[1].value} ELSE RandomRegisters
            : suggested \in suggest_target(ctx) }

\* Genome::insert_instruction_with_constant
insert_instruction_with_constant(gv, ctx) ==
    IF ~ctx.has_histogram_instruction_constant THEN {Unchanged(gv)}
    ELSE IF ~ctx.has_suggest_instruction THEN {Unchanged(gv)}
    ELSE IF ~ctx.has_suggest_target THEN {Unchanged(gv)}
    ELSE IF Len(gv) < 1 THEN {Unchanged(gv)}
    ELSE UNION {
        IF suggested = <<>> THEN {Unchanged(gv)}
        ELSE { Outcome(Insert(gv, index1,
                   GenomeItem_new(suggested[1], "Direct", target_value, "Constant",
                                  IF picked = <<>> THEN 0 ELSE picked[1])), TRUE)
               : picked \in choose_constant_with_histogram(ctx, suggested[1]),
                 target_value \in InsertedTargets(ctx) }
        : index1 \in 0..(Len(gv) - 1), suggested \in suggest_instruction(ctx) }

\* The rows eligible for mutate_set_source_to_constant and
\* mutate_set_source_to_direct: the source is not yet of that type.
SetSourceIndexes(gv, source_type) ==
    { i \in DOMAIN gv :
        /\ ~gv[i].mutation_locked
        /\ gv[i].source_type # source_type
        /\ gv[i].instruction_id \notin EvalLoopFunctionIds }

\* Genome::mutate_set_source_to_constant
mutate_set_source_to_constant(gv, ctx) ==
    LET indexes == SetSourceIndexes(gv, "Constant")
    IN IF indexes = {} THEN {Unchanged(gv)}
       ELSE UNION {
            { IF picked = <<>> THEN Unchanged(gv)
              ELSE Outcome(SetRow(gv, i, [gv[i] EXCEPT !.source_type = "Constant",
                                                       !.source_value = picked[1]]), TRUE)
              : picked \in choose_constant_with_histogram(ctx, gv[i].instruction_id) }
            : i \in indexes }

\* Genome::mutate_set_source_to_direct: the new source is the target register
\* of one of the rows above the chosen row.
mutate_set_source_to_direct(gv) ==
    LET indexes == SetSourceIndexes(gv, "Direct")
    IN IF indexes = {} THEN {Unchanged(gv)}
       ELSE UNION {
            LET alive_registers == {gv[j].target_value : j \in 1..(the_index - 1)}
            IN IF alive_registers = {} THEN {Unchanged(gv)}
               ELSE { Outcome(SetRow(gv, the_index,
                          [gv[the_index] EXCEPT !.source_type = "Direct",
                                                !.source_value = the_register]), TRUE)
                      : the_register \in alive_registers }
            : the_index \in indexes }

\* Genome::mutate_disable_loop
mutate_disable_loop(gv) ==
    LET indexes == { i \in DOMAIN gv :
                       ~gv[i].mutation_locked /\ gv[i].instruction_id = "LoopBegin" }
    IN IF indexes = {} THEN {Unchanged(gv)}
       ELSE { Outcome(SetRow(gv, i, [gv[i] EXCEPT !.source_value = 0,
                                                  !.source_type = "Constant"]), TRUE)
              : i \in indexes }

\* Lines 1278-1290: up to `tries` rows tried for the swap.
RECURSIVE SwapRegistersTries(_, _, _)
SwapRegistersTries(gv, indexes, tries) ==
    IF tries = 0 THEN {Unchanged(gv)}
    ELSE UNION {
        LET r == GenomeItem_mutate_swap_source_target_value(gv[i])
        IN IF ~r.ok THEN SwapRegistersTries(gv, indexes, tries - 1)
           ELSE {Outcome(SetRow(gv, i, r.item), TRUE)}
        : i \in indexes }

\* Genome::mutate_swap_registers
mutate_swap_registers(gv) ==
    LET indexes == { i \in DOMAIN gv :
                       /\ ~gv[i].mutation_locked
                       /\ gv[i].target_type = "Direct"
                       /\ gv[i].source_type = "Direct" }
    IN IF indexes = {} THEN {Unchanged(gv)}
       ELSE SwapRegistersTries(gv, indexes, MUTATE_RETRIES)

\* Genome::mutate_enabled
mutate_enabled(gv) ==
    LET indexes == { i \in DOMAIN gv :
                       /\ ~gv[i].mutation_locked
                       /\ gv[i].instruction_id \notin LoopIds
                       /\ gv[i].target_type # "Indirect"
                       /\ gv[i].source_type # "Indirect" }
    IN IF indexes = {} THEN {Unchanged(gv)}
       ELSE { Outcome(SetRow(gv, i, [gv[i] EXCEPT !.enabled = ~gv[i].enabled]), TRUE)
              : i \in indexes }

\* Genome::mutate_swap_rows: choose_multiple draws two different indexes.
mutate_swap_rows(gv) ==
    LET indexes == UnlockedPlainIndexes(gv)
    IN IF Cardinality(indexes) < 2 THEN {Unchanged(gv)}
       ELSE { Outcome(Swap(gv, chosen[1], chosen[2]), TRUE)
              : chosen \in {c \in indexes \X indexes : c[1] # c[2]} }

\* Lines 1386-1394: a loop begin directly followed by its loop end is not
\* swapped.
IsLoopPair(instruction0, instruction1) ==
    /\ instruction0 \in {"LoopBegin", "UnofficialLoopBeginSubtract"}
    /\ instruction1 = "LoopEnd"

\* Genome::mutate_swap_adjacent_rows: index0 and index1 are neighbours in the
\* list of the rows that are not locked.
mutate_swap_adjacent_rows(gv) ==
    LET indexes == { i \in DOMAIN gv : ~gv[i].mutation_locked }
        neighbours == { p \in indexes \X indexes :
                          /\ p[1] < p[2]
                          /\ \A k \in indexes : ~(p[1] < k /\ k < p[2]) }
    IN IF Cardinality(indexes) < 2 THEN {Unchanged(gv)}
       ELSE { IF IsLoopPair(gv[p[1]].instruction_id, gv[p[2]].instruction_id)
              THEN Unchanged(gv)
              ELSE Outcome(Swap(gv, p[1], p[2]), TRUE)
              : p \in neighbours }

Max(a, b) == IF a >= b THEN a ELSE b

Min(a, b) == IF a <= b THEN a ELSE b

\* Genome::mutate_insert_loop: lpe is inserted first, at the larger index,
\* then lpb at the smaller one.
mutate_insert_loop(gv) ==
    IF Len(gv) < 2 THEN {Unchanged(gv)}
    ELSE UNION {
        IF index0 = index1 THEN {Unchanged(gv)}
        ELSE { Outcome(
                 Insert(Insert(gv, Max(index0, index1),
                               GenomeItem_new("LoopEnd", "Direct", 0, "Constant", 0)),
                        Min(index0, index1),
                        GenomeItem_new("LoopBegin", "Direct", register, "Constant", 1)),
                 TRUE)
               : register \in RandomRegisters }
        : index0 \in 0..(Len(gv) - 1), index1 \in 0..(Len(gv) - 1) }

\* Lines 1600-1610: up to `tries` program ids tried for row i.
RECURSIVE InstructionSeqTries(_, _, _, _, _)
InstructionSeqTries(gv, ctx, category, i, tries) ==
    IF tries = 0 THEN {Unchanged(gv)}
    ELSE UNION {
        LET r == GenomeItem_mutate_instruction_seq(gv[i], chosen)
        IN IF ~r.ok THEN InstructionSeqTries(gv, ctx, category, i, tries - 1)
           ELSE {Outcome(SetRow(gv, i, r.item), TRUE)}
        : chosen \in choose_program_id(ctx, category) }

\* Genome::mutate_instruction_seq
mutate_instruction_seq(gv, ctx, category) ==
    LET indexes == { i \in DOMAIN gv :
                       /\ ~gv[i].mutation_locked
                       /\ gv[i].source_type = "Constant"
                       /\ gv[i].instruction_id = "EvalSequence" }
    IN IF indexes = {} THEN {Unchanged(gv)}
       ELSE UNION {InstructionSeqTries(gv, ctx, category, i, MUTATE_RETRIES)
                   : i \in indexes}

\* The programs the DependencyManager can load (load_program_with_id followed
\* by to_genome_item_vec); <<>> when the file cannot be read or parsed.
\*   40:  mov $1,$0 / mov $2,$1 / add $0,$2
\*   41:  add $0,1
load_program_with_id(program_id) ==
    CASE program_id = 40 ->
            << << GenomeItem_new("Move", "Direct", 1, "Direct", 0),
                  GenomeItem_new("Move", "Direct", 2, "Direct", 1),
                  GenomeItem_new("Add", "Direct", 0, "Direct", 2) >> >>
      [] program_id = 41 ->
            << << GenomeItem_new("Add", "Direct", 0, "Constant", 1) >> >>
      [] OTHER -> <<>>

\* Lines 1462-1481: the largest register index used by an enabled row.
RECURSIVE MaxRegister(_, _)
MaxRegister(gv, i) ==
    IF i > Len(gv) THEN 0
    ELSE LET rest == MaxRegister(gv, i + 1)
             t == IF gv[i].enabled /\ gv[i].target_type = "Direct"
                     /\ gv[i].target_value >= 0
                  THEN Max(rest, gv[i].target_value) ELSE rest
         IN IF gv[i].enabled /\ gv[i].source_type = "Direct"
               /\ gv[i].source_value >= 0
            THEN Max(t, gv[i].source_value) ELSE t

RenumberRegister_WithoutOffset(index, in_out_register, offset_by) ==
    IF index = 0 THEN in_out_register ELSE index

\* Lines 1523-1544: one register index of the inlined program renumbered.
RenumberRegister(index, in_out_register, offset_by) ==
    IF index = 0 THEN in_out_register
    ELSE IF index > 0 THEN index + offset_by
    ELSE index

\* Lines 1522-1545: one row of the inlined program renumbered.
RenumberItem(item, in_out_register, offset_by) ==
    [item EXCEPT
        !.target_value = IF item.target_type = "Direct"
                         THEN RenumberRegister(@, in_out_register, offset_by) ELSE @,
        !.source_value = IF item.source_type = "Direct"
                         THEN RenumberRegister(@, in_out_register, offset_by) ELSE @]

\* Lines 1521-1545: the registers collected in clear_register_indexes.
ClearRegisterIndexes(program, offset_by) ==
    { program[k].target_value + offset_by :
        k \in { j \in DOMAIN program : program[j].target_type = "Direct"
                                        /\ program[j].target_value > 0 } }
    \cup
    { program[k].source_value + offset_by :
        k \in { j \in DOMAIN program : program[j].source_type = "Direct"
                                        /\ program[j].source_value > 0 } }

\* The orders in which a HashSet may be iterated.
RECURSIVE Orderings(_)
Orderings(set) ==
    IF set = {} THEN {<<>>}
    ELSE UNION { { <<x>> \o rest : rest \in Orderings(set \ {x}) } : x \in set }

\* Lines 1550-1559: the rows `mov $register,0`, one per cleared register.
ClearRows(order) ==
    [k \in DOMAIN order |-> GenomeItem_new("Move", "Direct", order[k], "Constant", 0)]

\* Lines 1561-1562: Vec::splice(index..=index, rows), row i replaced by rows.
Splice(gv, i, rows) == SubSeq(gv, 1, i - 1) \o rows \o SubSeq(gv, i + 1, Len(gv))

\* Lines 1485-1567: the chosen seq row i inlined.
InlineSeqRow(gv, i) ==
    LET offset_by == MaxRegister(gv, 1)
        loaded == load_program_with_id(gv[i].source_value)
    IN IF gv[i].source_value < 0 THEN {Unchanged(gv)}
       ELSE IF gv[i].target_value < 0 THEN {Unchanged(gv)}
       ELSE IF loaded = <<>> THEN {Unchanged(gv)}
       ELSE LET program == loaded[1]
                renumbered == [k \in DOMAIN program |->
                                  RenumberItem(program[k], gv[i].target_value, offset_by)]
            IN { Outcome(Splice(gv, i, ClearRows(order) \o renumbered), TRUE)
                 : order \in Orderings(ClearRegisterIndexes(program, offset_by)) }

\* Genome::mutate_inline_seq
mutate_inline_seq(gv) ==
    LET indexes == { i \in DOMAIN gv :
                       /\ gv[i].source_type = "Constant"
                       /\ gv[i].instruction_id = "EvalSequence" }
    IN IF indexes = {} THEN {Unchanged(gv)}
       ELSE UNION {InlineSeqRow(gv, i) : i \in indexes}

\* Genome::mutate, lines 1619-1648: the mutations and their weights.
mutation_vec ==
    << <<"ReplaceInstructionWithHistogram", 10>>,
       <<"InsertInstructionWithConstant", 0>>,
       <<"IncrementSourceValueWhereTypeIsConstant", 10>>,
       <<"DecrementSourceValueWhereTypeIsConstant", 10>>,
       <<"ReplaceSourceConstantWithHistogram", 10>>,
       <<"SetSourceToConstant", 10>>,
       <<"SetSourceToDirect", 10>>,
       <<"DisableLoop", 0>>,
       <<"SwapRegisters", 10>>,
       <<"IncrementSourceValueWhereTypeIsDirect", 10>>,
       <<"DecrementSourceValueWhereTypeIsDirect", 10>>,
       <<"ReplaceSourceWithHistogram", 10>>,
       <<"IncrementTargetValueWhereTypeIsDirect", 10>>,
       <<"DecrementTargetValueWhereTypeIsDirect", 10>>,
       <<"ReplaceTargetWithHistogram", 10>>,
       <<"ReplaceLineWithHistogram", 50>>,
       <<"InsertLineWithHistogram", 50>>,
       <<"CopyLine", 10>>,
       <<"ToggleEnabled", 10>>,
       <<"SwapRows", 10>>,
       <<"SwapAdjacentRows", 10>>,
       <<"InsertLoopBeginEnd", 0>>,
       <<"CallProgramWeightedByPopularity", 0>>,
       <<"CallMostPopularProgram", 10>>,
       <<"CallMediumPopularProgram", 20>>,
       <<"CallLeastPopularProgram", 50>>,
       <<"CallRecentProgram", 300>>,
       <<"CallProgramThatUsesIndirectMemoryAccess", 0>> >>

\* choose_weighted, line 1649: a mutation of weight 0 is never chosen.
ChoosableMutations ==
    { mutation_vec[k][1] : k \in { j \in DOMAIN mutation_vec : mutation_vec[j][2] > 0 } }

\* The mutations mutate never chooses; their operators are public functions.
WeightZeroMutations ==
    { mutation_vec[k][1] : k \in { j \in DOMAIN mutation_vec : mutation_vec[j][2] = 0 } }

\* Genome::mutate, lines 1651-1736: the operator a mutation stands for.
MutationOutcomes(mutation, gv, ctx) ==
    CASE mutation = "ReplaceInstructionWithHistogram" ->
            replace_instruction_with_histogram(gv, ctx)
      [] mutation = "InsertInstructionWithConstant" ->
            insert_instruction_with_constant(gv, ctx)
      [] mutation = "IncrementSourceValueWhereTypeIsConstant" ->
            increment_source_value_where_type_is_constant(gv)
      [] mutation = "DecrementSourceValueWhereTypeIsConstant" ->
            decrement_source_value_where_type_is_constant(gv)
      [] mutation = "ReplaceSourceConstantWithHistogram" ->
            replace_source_constant_with_histogram(gv, ctx)
      [] mutation = "SetSourceToConstant" -> mutate_set_source_to_constant(gv, ctx)
      [] mutation = "SetSourceToDirect" -> mutate_set_source_to_direct(gv)
      [] mutation = "DisableLoop" -> mutate_disable_loop(gv)
      [] mutation = "SwapRegisters" -> mutate_swap_registers(gv)
      [] mutation = "IncrementSourceValueWhereTypeIsDirect" ->
            increment_source_value_where_type_is_direct(gv)
      [] mutation = "DecrementSourceValueWhereTypeIsDirect" ->
            decrement_source_value_where_type_is_direct(gv)
      [] mutation = "ReplaceSourceWithHistogram" -> replace_source_with_histogram(gv, ctx)
      [] mutation = "IncrementTargetValueWhereTypeIsDirect" ->
            increment_target_value_where_type_is_direct(gv)
      [] mutation = "DecrementTargetValueWhereTypeIsDirect" ->
            decrement_target_value_where_type_is_direct(gv)
      [] mutation = "ReplaceTargetWithHistogram" -> replace_target_with_histogram(gv, ctx)
      [] mutation = "ReplaceLineWithHistogram" -> replace_line_with_histogram(gv, ctx)
      [] mutation = "InsertLineWithHistogram" -> insert_line_with_histogram(gv, ctx)
      [] mutation = "CopyLine" -> copy_line(gv)
      [] mutation = "ToggleEnabled" -> mutate_enabled(gv)
      [] mutation = "SwapRows" -> mutate_swap_rows(gv)
      [] mutation = "SwapAdjacentRows" -> mutate_swap_adjacent_rows(gv)
      [] mutation = "InsertLoopBeginEnd" -> mutate_insert_loop(gv)
      [] mutation = "CallProgramWeightedByPopularity" ->
            mutate_instruction_seq(gv, ctx, "WeightedByPopularity")
      [] mutation = "CallMostPopularProgram" ->
            mutate_instruction_seq(gv, ctx, "MostPopular")
      [] mutation = "CallMediumPopularProgram" ->
            mutate_instruction_seq(gv, ctx, "MediumPopular")
      [] mutation = "CallLeastPopularProgram" ->
            mutate_instruction_seq(gv, ctx, "LeastPopular")
      [] mutation = "CallRecentProgram" ->
            mutate_instruction_seq(gv, ctx, "Recent")
      [] mutation = "CallProgramThatUsesIndirectMemoryAccess" ->
            mutate_instruction_seq(gv, ctx, "ProgramThatUsesIndirectMemoryAccess")

MutateMessage_WithoutNoChange(mutation, did_mutate_ok) == <<"mutate: ", mutation>>

\* Lines 1738-1742: the message mutate logs.
MutateMessage(mutation, did_mutate_ok) ==
    IF did_mutate_ok THEN <<"mutate: ", mutation>>
    ELSE <<"mutate: ", mutation, ", no change">>

----------------------------------------------------------------------------
(* Mutating a genome *)

\* Largest number of operator calls made on one genome.
MaxCalls == 2

\* Direct calls of an operator happen among the first MaxDirectCalls calls.
MaxDirectCalls == 1

\* Largest number of rows of the genomes built from the row pool.
MaxInitRows == 2

Locked(item) == [item EXCEPT !.mutation_locked = TRUE]

Disabled(item) == [item EXCEPT !.enabled = FALSE]

\* The rows the starting genomes are built from.
RowPool ==
    { GenomeItem_new("Add", "Direct", 0, "Constant", 1),
      GenomeItem_new("Divide", "Direct", 1, "Constant", 0 - 1),
      GenomeItem_new("Modulo", "Direct", 0, "Constant", 1),
      GenomeItem_new("Move", "Direct", 1, "Direct", 0),
      GenomeItem_new("EvalSequence", "Direct", 0, "Constant", 40),
      Locked(GenomeItem_new("Add", "Direct", 1, "Constant", 0)),
      Locked(GenomeItem_new("EvalSequence", "Direct", 1, "Constant", 41)),
      GenomeItem_new("LoopBegin", "Direct", 0, "Constant", 1),
      GenomeItem_new("LoopEnd", "Direct", 0, "Constant", 0) }

RECURSIVE SeqsUpTo(_, _)
SeqsUpTo(set, n) ==
    IF n = 0 THEN {<<>>}
    ELSE LET shorter == SeqsUpTo(set, n - 1)
         IN shorter \cup { Append(q, x) : q \in shorter, x \in set }

\* Further starting genomes: a disabled row, an indirect operand, a constant
\* at i32::MAX and i32::MIN, a loop around a row, a locked row between two
\* rows that are not locked, a disabled seq row in front of an add, a loop
\* whose begin is locked.
ExtraGenomes ==
    { << GenomeItem_new("Add", "Direct", 0, "Constant", 1),
         Locked(GenomeItem_new("LoopBegin", "Direct", 0, "Constant", 1)),
         GenomeItem_new("LoopEnd", "Direct", 0, "Constant", 0) >>,
      << Disabled(GenomeItem_new("EvalSequence", "Direct", 0, "Constant", 41)),
         GenomeItem_new("Add", "Direct", 0, "Constant", 1) >>,
      << Disabled(GenomeItem_new("EvalSequence", "Direct", 0, "Constant", 41)),
         GenomeItem_new("Add", "Indirect", 1, "Indirect", 0) >>,
      << GenomeItem_new("Add", "Direct", 0, "Constant", I32_MAX),
         GenomeItem_new("Add", "Direct", 0, "Constant", I32_MIN) >>,
      << GenomeItem_new("LoopBegin", "Direct", 0, "Constant", 1),
         GenomeItem_new("Add", "Direct", 1, "Direct", 1),
         GenomeItem_new("LoopEnd", "Direct", 0, "Constant", 0) >>,
      << GenomeItem_new("Move", "Direct", 1, "Direct", 0),
         Locked(GenomeItem_new("Divide", "Direct", 1, "Constant", 1)),
         GenomeItem_new("Add", "Direct", 0, "Constant", 1) >> }

InitGenomes == SeqsUpTo(RowPool, MaxInitRows) \cup ExtraGenomes

\* The contexts: every table loaded, no table loaded, only the constant
\* histogram and the instruction n-grams loaded.
Contexts ==
    { Context(TRUE, TRUE, TRUE, TRUE, TRUE, TRUE),
      Context(FALSE, FALSE, FALSE, FALSE, FALSE, FALSE),
      Context(TRUE, FALSE, FALSE, TRUE, FALSE, FALSE) }

\* create_mutations_of_program, line 1614: the first message of the log.
TemplateMessage == <<"template: ", "program">>

\* What every call of an operator records.
Called(operator, via_mutate, outcome) ==
    /\ genome_vec' = outcome.genome_vec
    /\ genome_before' = genome_vec
    /\ last_call' = [operator |-> operator, via_mutate |-> via_mutate]
    /\ last_ok' = outcome.ok
    /\ calls' = calls + 1
    /\ UNCHANGED <<context, genome_start, state, loop_vars, mov_vars, search_vars, prompt_vars>>

\* Genome::mutate
Mutate ==
    /\ calls < MaxCalls
    /\ \E mutation \in ChoosableMutations :
          \E outcome \in MutationOutcomes(mutation, genome_vec, context) :
             /\ Called(mutation, TRUE, outcome)
             /\ message_vec' = Append(message_vec, MutateMessage(mutation, outcome.ok))

\* A direct call of one of the operators that mutate never chooses.
CallOperator ==
    /\ calls < MaxCalls
    /\ calls < MaxDirectCalls
    /\ \E mutation \in WeightZeroMutations :
          \E outcome \in MutationOutcomes(mutation, genome_vec, context) :
             /\ Called(mutation, FALSE, outcome)
             /\ UNCHANGED message_vec

\* A call of Genome::mutate_inline_seq on the rows of the genome.
CallInlineSeq ==
    /\ calls < MaxCalls
    /\ calls < MaxDirectCalls
    /\ \E outcome \in mutate_inline_seq(genome_vec) :
          /\ Called("InlineSeq", FALSE, outcome)
          /\ UNCHANGED message_vec

\* create_mutations_of_program, lines 1613-1626: a genome with its rows.
GenomeInit ==
    /\ genome_vec \in InitGenomes
    /\ context \in Contexts
    /\ message_vec = <<TemplateMessage>>
    /\ genome_start = genome_vec
    /\ genome_before = genome_vec
    /\ last_call = NoCall
    /\ last_ok = FALSE
    /\ calls = 0
    /\ state = ZeroState
    /\ LoopIdle
    /\ MoveIdle
    /\ SearchIdle
    /\ PromptIdle

MutateNext == Mutate

\* Only Genome::mutate is called.
SpecMutate == GenomeInit /\ [][MutateNext]_vars

GenomeNext == Mutate \/ CallOperator \/ CallInlineSeq

\* Genome::mutate and every public operator are called.
SpecGenome == GenomeInit /\ [][GenomeNext]_vars

----------------------------------------------------------------------------
(* Running the program of a genome *)

\* Genome::to_parsed_program: the rows that are enabled, in order.
to_parsed_program(gv) == SelectSeq(gv, LAMBDA item : item.enabled)

\* GenomeItem::to_parameter_vec: the target and the source of the row.
to_parameter_vec(item) ==
    << [parameter_type |-> item.target_type, parameter_value |-> item.target_value],
       [parameter_type |-> item.source_type, parameter_value |-> item.source_value] >>

LineNumberAfter_CountingEveryRow(item, line_number) == line_number + 1

\* Genome::to_parsed_program: a disabled row is left by `continue` before
\* line_number is incremented.
LineNumberAfter(item, line_number) ==
    IF item.enabled THEN line_number + 1 ELSE line_number

\* Genome::to_parsed_program: the instruction_vec made by the loop over the
\* rows, starting with the given line_number.
RECURSIVE InstructionVec(_, _)
InstructionVec(rows, line_number) ==
    IF rows = <<>> THEN <<>>
    ELSE LET genome_item == Head(rows)
             pushed == IF genome_item.enabled
                       THEN << [instruction_id |-> genome_item.instruction_id,
                                parameter_vec |-> to_parameter_vec(genome_item),
                                line_number |-> line_number] >>
                       ELSE <<>>
         IN pushed \o InstructionVec(Tail(rows), LineNumberAfter(genome_item, line_number))

\* Largest register index of the states the programs of genomes are run on.
MaxVmRegister == 8

VmRegisters == 0..MaxVmRegister

\* A register file with $0 = a, $1 = b and 0 in every other register.
VmState(a, b) == [r \in VmRegisters |-> IF r = 0 THEN a ELSE IF r = 1 THEN b ELSE 0]

\* The rows run here: mov, add and seq with a direct target and a constant
\* or direct source, all registers within the register file.
Runnable(item) ==
    /\ item.instruction_id \in {"Move", "Add", "EvalSequence"}
    /\ item.target_type = "Direct"
    /\ item.target_value \in VmRegisters
    /\ \/ item.source_type = "Constant"
       \/ item.source_type = "Direct" /\ item.source_value \in VmRegisters
    /\ item.instruction_id = "EvalSequence" =>
          /\ item.source_type = "Constant"
          /\ load_program_with_id(item.source_value) # <<>>

\* The value of the source operand of a row.
RowSource(item, st) ==
    IF item.source_type = "Constant" THEN item.source_value ELSE st[item.source_value]

\* mov and add of the virtual machine.
RunPlainRow(item, st) ==
    IF item.instruction_id = "Move"
    THEN [st EXCEPT ![item.target_value] = RowSource(item, st)]
    ELSE [st EXCEPT ![item.target_value] = @ + RowSource(item, st)]

RECURSIVE RunPlainRows(_, _)
RunPlainRows(rows, st) ==
    IF rows = <<>> THEN st
    ELSE RunPlainRows(Tail(rows), RunPlainRow(Head(rows), st))

\* seq $r,ID: the program ID is run on a fresh register file whose $0 is the
\* caller's $r; its $0 is the result, stored in the caller's $r.
RunSeqRow(item, st) ==
    LET callee == to_parsed_program(load_program_with_id(item.source_value)[1])
        result == RunPlainRows(callee, VmState(st[item.target_value], 0))
    IN [st EXCEPT ![item.target_value] = result[0]]

\* The rows of a program run in order.
RECURSIVE RunRows(_, _)
RunRows(rows, st) ==
    IF rows = <<>> THEN st
    ELSE RunRows(Tail(rows),
                 IF Head(rows).instruction_id = "EvalSequence"
                 THEN RunSeqRow(Head(rows), st)
                 ELSE RunPlainRow(Head(rows), st))

\* The final register file of the program of a genome started on st.
RunGenome(gv, st) == RunRows(to_parsed_program(gv), st)

----------------------------------------------------------------------------
(* The search scheduler: TraverseProgramsAndModels::run_arc_competition *)

\* Largest number of seed programs loaded at start-up.
MaxSeeds == 1

\* Largest number of targets (ModelItem) loaded at start-up.
MaxModels == 2

\* Number of distinct canonical program texts (bloom keys).
NumKeys == 4

\* mutation_index counts the rounds up to MaxRounds; every later round is
\* identified with round MaxRounds.
MaxRounds == 1

\* BatchPlan.execute_time_limit, in ticks of the clock.
ExecuteTimeLimit == 1

\* ARC_COMPETITION_INITIAL_RANDOM_SEED
ARC_COMPETITION_INITIAL_RANDOM_SEED == 1

\* create_mutations_of_program: `let max_number_of_iterations = 100`
max_number_of_iterations == 100

\* run_arc_competition: `let number_of_programs_to_generate: usize = 3`
number_of_programs_to_generate == 3

\* run_arc_competition: `let try_existing_solutions = true`
try_existing_solutions == TRUE

\* The factor 0x10000 of the random seed.
SeedStride == 65536

Keys == 1..NumKeys

\* ProgramItemId::None; every other id is a ProgramItemId::Path.
ProgramItemIdNone == 0

\* A ProgramItem behind its Rc. `uid` is the identity of the Rc, `id` the
\* ProgramItemId, `bloom_key` the canonical text parsed_program.to_string().
ProgramItem(uid, id, key) == [uid |-> uid, id |-> id, bloom_key |-> key]

RandomSeed_NarrowStride(round, iter) ==
    round * 64 + iter + ARC_COMPETITION_INITIAL_RANDOM_SEED

\* The seed derived for one mutation attempt. The u64 does not wrap for the
\* rounds modelled here (mutation_index < 2^48).
RandomSeed(round, iter) ==
    round * SeedStride + iter + ARC_COMPETITION_INITIAL_RANDOM_SEED

RECURSIVE Dedup(_, _)
Dedup(vec, uniques) ==
    IF vec = <<>> THEN <<>>
    ELSE IF Head(vec).id \in uniques THEN Dedup(Tail(vec), uniques)
    ELSE <<Head(vec)>> \o Dedup(Tail(vec), uniques \cup {Head(vec).id})

\* TraverseProgramsAndModels::dedup_program_item_vec: retain the first item
\* of every ProgramItemId.
dedup_program_item_vec(vec) == Dedup(vec, {})

ModelItem_remove_model_items_KeepingAll(vec, remove) == vec

\* ModelItem::remove_model_items: the targets that are not in `remove`.
ModelItem_remove_model_items(vec, remove) ==
    SelectSeq(vec, LAMBDA m : \A i \in DOMAIN remove : remove[i] # m)

\* What one execution of a candidate on a target gives: an error, or a
\* RunWithProgramResult with its three counters.
RunResults ==
    {[ok |-> FALSE, count_train_correct |-> 0, count_train_incorrect |-> 0,
      count_test_empty |-> 0]}
    \cup [ok : {TRUE}, count_train_correct : 0..1, count_train_incorrect : 0..1,
          count_test_empty : 0..1]

Accepts_IgnoringEmptyTest(result) ==
    IF ~result.ok THEN FALSE
    ELSE IF result.count_train_correct = 0 THEN FALSE
    ELSE IF result.count_train_incorrect > 0 THEN FALSE
    ELSE TRUE

\* run_one_batch: the tests a run result passes before save_solution is called.
Accepts(result) ==
    IF ~result.ok THEN FALSE
    ELSE IF result.count_train_correct = 0 THEN FALSE
    ELSE IF result.count_test_empty > 0 THEN FALSE
    ELSE IF result.count_train_incorrect > 0 THEN FALSE
    ELSE TRUE

\* The targets save_solution has succeeded for.
SolvedModels == {save_log[i].model : i \in DOMAIN save_log}

\* Where a batch starts: the loops over the targets and the candidates run no
\* execution when either vector is empty.
EnterBatch(models, programs) ==
    IF models = <<>> \/ programs = <<>>
    THEN [pc |-> "reschedule", model_index |-> 0, program_index |-> 0]
    ELSE [pc |-> "batch", model_index |-> 1, program_index |-> 1]

AfterSaved_Continue(m, p) ==
    IF p < Len(scheduled_program_item_vec)
    THEN [pc |-> "batch", model_index |-> m, program_index |-> p + 1]
    ELSE IF m < Len(scheduled_model_item_vec)
    THEN [pc |-> "batch", model_index |-> m + 1, program_index |-> 1]
    ELSE [pc |-> "reschedule", model_index |-> 0, program_index |-> 0]

\* run_one_batch, `break` after save_solution returned Ok: the next target.
AfterSaved(m, p) ==
    IF m < Len(scheduled_model_item_vec)
    THEN [pc |-> "batch", model_index |-> m + 1, program_index |-> 1]
    ELSE [pc |-> "reschedule", model_index |-> 0, program_index |-> 0]

\* run_one_batch, `continue`: the next candidate, or the next target after
\* the last candidate.
AfterRejected(m, p) ==
    IF p < Len(scheduled_program_item_vec)
    THEN [pc |-> "batch", model_index |-> m, program_index |-> p + 1]
    ELSE AfterSaved(m, p)

\* The item with the given Rc gets the ProgramItemId `id`.
SetProgramId(vec, uid, id) ==
    [i \in DOMAIN vec |-> IF vec[i].uid = uid THEN [vec[i] EXCEPT !.id = id] ELSE vec[i]]

\* The bloom keys a new program text can have: the keys are numbered in the
\* order in which they are first put into the filter, so a text is one of the
\* keys of the filter or the next key.
Texts(filter) == {k \in Keys : k <= Cardinality(filter) + 1}

\* The keys of the seed programs, numbered in the order of first appearance.
SeedKeys(n) ==
    {keys \in [1..n -> Keys] :
        \A i \in 1..n : keys[i] \in Texts({keys[j] : j \in 1..(i - 1)})}

\* The state of run_arc_competition before the first batch: the seed pool
\* deduplicated, the targets that have a task entry already taken out of the
\* schedule, and the key of every seed program put into the Bloom filter.
SearchInit ==
    /\ \E n \in 0..MaxSeeds : \E keys \in SeedKeys(n) :
          /\ program_item_vec =
                dedup_program_item_vec([i \in 1..n |-> ProgramItem(i, i, keys[i])])
          /\ bloom = {keys[i] : i \in 1..n}
    /\ \E n \in 0..MaxModels : \E ignore \in SUBSET {k \in 1..n : k = 1} :
          /\ scheduled_model_item_vec =
                SelectSeq([i \in 1..n |-> i], LAMBDA m : m \notin ignore)
          /\ current_tasks = SelectSeq([i \in 1..n |-> i], LAMBDA m : m \in ignore)
    /\ scheduled_program_item_vec = program_item_vec
    /\ remove_model_items = <<>>
    /\ discovered_program_item_vec = <<>>
    /\ terminate_due_to_timeout = FALSE
    /\ mutation_index = 0
    /\ LET start == IF try_existing_solutions
                    THEN EnterBatch(scheduled_model_item_vec, scheduled_program_item_vec)
                    ELSE [pc |-> "loop", model_index |-> 0, program_index |-> 0]
       IN /\ search_pc = start.pc
          /\ model_index = start.model_index
          /\ program_index = start.program_index
    /\ clock = 0
    /\ template_index = 0
    /\ iteration = 0
    /\ result_program_item_vec = <<>>
    /\ mutated_programs = <<>>
    /\ random_seed = 0
    /\ files_saved = 0
    /\ last_run = NoRun
    /\ save_log = <<>>
    /\ returned_keys = <<>>
    /\ last_created = NoCreated
    /\ state = ZeroState
    /\ LoopIdle
    /\ MoveIdle
    /\ GenomeIdle
    /\ PromptIdle

other_vars == <<state, loop_vars, mov_vars, genome_vars, prompt_vars>>

mutation_vars == <<template_index, iteration, result_program_item_vec,
                   mutated_programs, random_seed, returned_keys, last_created, bloom>>

\* Time passes until the deadline. The clock is read by run_one_batch only:
\* the time that passes while mutations are made is counted when they are made.
Tick ==
    /\ search_pc \in {"batch", "reschedule", "loop"}
    /\ clock < ExecuteTimeLimit
    /\ clock' = clock + 1
    /\ UNCHANGED <<program_item_vec, scheduled_model_item_vec,
                   scheduled_program_item_vec, remove_model_items,
                   discovered_program_item_vec, current_tasks,
                   terminate_due_to_timeout, mutation_index, search_pc,
                   model_index, program_index, files_saved, last_run, save_log,
                   mutation_vars, other_vars>>

\* BatchPlan::run_one_batch, one pass of the loop over the candidates: the
\* deadline test, the execution, the tests of its result, and save_solution
\* with what it appends. `io_ok` is whether the file of a new program could
\* be written.
RunCandidate ==
    /\ search_pc = "batch"
    /\ IF clock >= ExecuteTimeLimit
       THEN /\ terminate_due_to_timeout' = TRUE
            /\ search_pc' = "reschedule"
            /\ model_index' = 0
            /\ program_index' = 0
            /\ UNCHANGED <<scheduled_program_item_vec, remove_model_items,
                           discovered_program_item_vec, current_tasks,
                           files_saved, last_run, save_log>>
       ELSE \E result \in RunResults, io_ok \in BOOLEAN :
               LET model_item == scheduled_model_item_vec[model_index]
                   program_item == scheduled_program_item_vec[program_index]
                   is_new_program == program_item.id = ProgramItemIdNone
                   invoked == Accepts(result)
                   saved == invoked /\ (is_new_program => io_ok)
                   program_id == IF is_new_program THEN MaxSeeds + 1 + files_saved
                                 ELSE program_item.id
                   next == IF saved THEN AfterSaved(model_index, program_index)
                           ELSE AfterRejected(model_index, program_index)
               IN /\ last_run' = [model |-> model_item, program |-> program_item.uid,
                                  result |-> result, invoked |-> invoked,
                                  saved |-> saved,
                                  solved_before |-> model_item \in SolvedModels]
                  /\ IF saved
                     THEN /\ scheduled_program_item_vec' =
                                SetProgramId(scheduled_program_item_vec,
                                             program_item.uid, program_id)
                          /\ files_saved' = IF is_new_program THEN files_saved + 1
                                            ELSE files_saved
                          /\ current_tasks' = Append(current_tasks, model_item)
                          /\ remove_model_items' = Append(remove_model_items, model_item)
                          /\ discovered_program_item_vec' =
                                IF is_new_program
                                THEN Append(discovered_program_item_vec,
                                            [program_item EXCEPT !.id = program_id])
                                ELSE discovered_program_item_vec
                          /\ save_log' = Append(save_log,
                                [model |-> model_item, program |-> program_item.uid,
                                 result |-> result, is_new_program |-> is_new_program])
                     ELSE UNCHANGED <<scheduled_program_item_vec, files_saved,
                                      current_tasks, remove_model_items,
                                      discovered_program_item_vec, save_log>>
                  /\ search_pc' = next.pc
                  /\ model_index' = next.model_index
                  /\ program_index' = next.program_index
                  /\ UNCHANGED terminate_due_to_timeout
    /\ UNCHANGED <<program_item_vec, scheduled_model_item_vec, mutation_index,
                   clock, mutation_vars, other_vars>>

DiscoveredAfterTransfer_Kept(discovered) == discovered

\* transfer_discovered_programs: Vec::append leaves the discovered vector empty.
DiscoveredAfterTransfer(discovered) == <<>>

\* BatchRunner::run_one_batch after the loops: BatchPlan::reschedule, and then
\* run_arc_competition: transfer_discovered_programs and, in the mutation
\* loop, the increment of mutation_index. `reload_ok` is the outcome of
\* reload_analytics_dir.
FinishBatch ==
    /\ search_pc = "reschedule"
    /\ scheduled_model_item_vec' =
          IF remove_model_items = <<>> THEN scheduled_model_item_vec
          ELSE ModelItem_remove_model_items(scheduled_model_item_vec, remove_model_items)
    /\ remove_model_items' = <<>>
    /\ \E reload_ok \in BOOLEAN :
          IF discovered_program_item_vec = <<>>
          THEN /\ reload_ok
               /\ search_pc' = "loop"
               /\ UNCHANGED <<program_item_vec, discovered_program_item_vec>>
          ELSE /\ program_item_vec' =
                     dedup_program_item_vec(program_item_vec \o discovered_program_item_vec)
               /\ discovered_program_item_vec' =
                     DiscoveredAfterTransfer(discovered_program_item_vec)
               /\ search_pc' = IF reload_ok THEN "loop" ELSE "failed"
    /\ mutation_index' =
          IF template_index = 0 THEN mutation_index
          ELSE IF mutation_index < MaxRounds THEN mutation_index + 1
          ELSE MaxRounds
    /\ last_run' = NoRun
    /\ UNCHANGED <<scheduled_program_item_vec, current_tasks,
                   terminate_due_to_timeout, model_index, program_index, clock,
                   files_saved, save_log, mutation_vars, other_vars>>

\* run_arc_competition, the head of the mutation loop: the two exits, or the
\* start of create_mutations_of_all_programs.
LoopHead ==
    /\ search_pc = "loop"
    /\ IF scheduled_model_item_vec = <<>> \/ terminate_due_to_timeout
       THEN /\ search_pc' = "done"
            /\ UNCHANGED <<scheduled_program_item_vec, model_index, program_index,
                           template_index>>
       ELSE IF program_item_vec = <<>>
       THEN LET start == EnterBatch(scheduled_model_item_vec, <<>>)
            IN /\ scheduled_program_item_vec' = <<>>
               /\ search_pc' = start.pc
               /\ model_index' = start.model_index
               /\ program_index' = start.program_index
               /\ template_index' = 1
       ELSE /\ search_pc' = "mutate"
            /\ template_index' = 1
            /\ UNCHANGED <<scheduled_program_item_vec, model_index, program_index>>
    /\ iteration' = 0
    /\ result_program_item_vec' = <<>>
    /\ mutated_programs' = <<>>
    /\ UNCHANGED <<program_item_vec, scheduled_model_item_vec, remove_model_items,
                   discovered_program_item_vec, current_tasks,
                   terminate_due_to_timeout, mutation_index, bloom, clock,
                   random_seed, files_saved, last_run, save_log, returned_keys,
                   last_created, other_vars>>

BloomAfterSet_Forgotten(filter, key) == filter

\* Bloom::set
BloomAfterSet(filter, key) == filter \cup {key}

\* Bloom::check: true for every key that was set, and for some others
\* (`false_positive`).
BloomCheck(filter, key, false_positive) == key \in filter \/ false_positive

\* create_mutations_of_program, one pass of its loop for the program at
\* template_index of the pool. `mutate_success` is what Genome::mutate
\* returned, `key` the text of the mutated genome, `parse_ok` the outcome of
\* parse_stage2.
MutationAttempt ==
    /\ search_pc = "mutate"
    /\ iteration < max_number_of_iterations
    /\ Len(result_program_item_vec) < number_of_programs_to_generate
    /\ random_seed' = RandomSeed(mutation_index, iteration)
    /\ \E mutate_success \in BOOLEAN :
          IF ~mutate_success
          THEN UNCHANGED <<bloom, returned_keys, result_program_item_vec>>
          ELSE \E key \in Texts(bloom) :
               \E false_positive \in (IF key \in bloom THEN {FALSE} ELSE BOOLEAN) :
                  IF BloomCheck(bloom, key, false_positive)
                  THEN UNCHANGED <<bloom, returned_keys, result_program_item_vec>>
                  ELSE /\ bloom' = BloomAfterSet(bloom, key)
                       /\ \E parse_ok \in BOOLEAN :
                             IF ~parse_ok
                             THEN UNCHANGED <<returned_keys, result_program_item_vec>>
                             ELSE /\ returned_keys' = Append(returned_keys, key)
                                  /\ result_program_item_vec' =
                                        Append(result_program_item_vec,
                                               ProgramItem(MaxSeeds + 1 + Len(returned_keys),
                                                           ProgramItemIdNone, key))
    /\ iteration' = iteration + 1
    /\ UNCHANGED <<program_item_vec, scheduled_model_item_vec,
                   scheduled_program_item_vec, remove_model_items,
                   discovered_program_item_vec, current_tasks,
                   terminate_due_to_timeout, mutation_index, search_pc,
                   model_index, program_index, clock, template_index,
                   mutated_programs, files_saved, last_run, save_log,
                   last_created, other_vars>>

\* create_mutations_of_program returns, with Ok or with Err when no program
\* was made, and create_mutations_of_all_programs appends an Ok result; after
\* the last program of the pool the result becomes the candidates of the
\* next batch.
ReturnMutations ==
    /\ search_pc = "mutate"
    /\ \/ iteration >= max_number_of_iterations
       \/ Len(result_program_item_vec) >= number_of_programs_to_generate
    /\ LET is_ok == result_program_item_vec # <<>>
           all == IF is_ok THEN mutated_programs \o result_program_item_vec
                  ELSE mutated_programs
           start == EnterBatch(scheduled_model_item_vec, all)
       IN /\ last_created' = [called |-> TRUE, ok |-> is_ok,
                              len |-> Len(result_program_item_vec)]
          /\ mutated_programs' = all
          /\ IF template_index >= Len(program_item_vec)
             THEN /\ scheduled_program_item_vec' = all
                  /\ search_pc' = start.pc
                  /\ model_index' = start.model_index
                  /\ program_index' = start.program_index
             ELSE UNCHANGED <<scheduled_program_item_vec, search_pc,
                              model_index, program_index>>
    /\ template_index' = template_index + 1
    /\ iteration' = 0
    /\ result_program_item_vec' = <<>>
    /\ random_seed' = 0
    /\ UNCHANGED <<program_item_vec, scheduled_model_item_vec, remove_model_items,
                   discovered_program_item_vec, current_tasks,
                   terminate_due_to_timeout, mutation_index, bloom, clock,
                   files_saved, last_run, save_log, returned_keys, other_vars>>

SearchStep ==
    RunCandidate \/ FinishBatch \/ LoopHead \/ MutationAttempt \/ ReturnMutations

SearchNext ==
    Tick \/ RunCandidate \/ FinishBatch \/ LoopHead \/ MutationAttempt \/ ReturnMutations

\* run_arc_competition, with the clock running beside it.
SpecSearch == SearchInit /\ [][SearchNext]_vars

\* run_arc_competition keeps running while it can (every execution and every
\* mutation terminates), and the clock advances until the deadline.
SpecSearchFair ==
    SearchInit /\ [][SearchNext]_vars /\ WF_vars(SearchStep) /\ SF_vars(Tick)

----------------------------------------------------------------------------
(* Properties of NodeLoopConstant::eval *)

\* The loop body applied n times. The count is split in halves and the state
\* is looked at on entry, which keeps the nesting of the evaluation low.
RECURSIVE IterateBody(_, _, _)
IterateBody(program, st, n) ==
    IF DOMAIN st # Registers \/ n = 0 THEN st
    ELSE IF n = 1 THEN Program_run(program, st)
    ELSE IterateBody(program, IterateBody(program, st, n \div 2), n - (n \div 2))

\* C1: when the loop exits normally, the state handed back is the snapshot
\* taken before the last executed body iteration: the changes of that last,
\* not strictly decreasing iteration are rolled back, the changes of all the
\* earlier, strictly decreasing iterations are kept.
C1_ExitRestoresSnapshotBeforeLastIteration ==
    loop_pc = "exit" =>
        /\ state = old_state
        /\ cycles = bodies_run - 1
        /\ state = IterateBody(loop_node.program, initial_state, bodies_run - 1)
        /\ ~is_less(Program_run(loop_node.program, state), state,
                    loop_node.register, loop_node.range_length)

\* A normal exit after at least two kept iterations, where the last
\* iteration had changed registers that were rolled back.
C1_Witness ==
    /\ loop_pc = "exit"
    /\ cycles >= 2
    /\ state # initial_state
    /\ Program_run(loop_node.program, state) # state

C3_LimitExceededIsReturnedAsFailure ==
    /\ loop_pc # "panic"
    /\ (loop_pc # "running" /\ cycles > LoopCycleLimit) =>
            loop_pc = "Err_LoopIterationLimitExceeded"

\* C4: the loop stops after a bounded number of body executions: at most
\* 1001; a loop is only cut off after 1001 strictly decreasing iterations,
\* so one that needs at most 1000 exits normally, and as long as eval is
\* running its next iteration can be taken.
C4_LoopStopsWithinTheCap ==
    /\ loop_pc # "idle" => bodies_run <= LoopCycleLimit + 1
    /\ loop_pc = "panic" => (cycles = LoopCycleLimit + 1 /\ bodies_run = cycles)
    /\ loop_pc = "exit" => cycles <= LoopCycleLimit
    /\ loop_pc = "running" => (cycles <= LoopCycleLimit /\ ENABLED LoopIteration)

\* A loop that was cut off by the cap, and no earlier than the cap.
C4_Witness ==
    /\ loop_pc = "panic"
    /\ bodies_run = LoopCycleLimit + 1
    /\ initial_state[0] > LoopCycleLimit

----------------------------------------------------------------------------
(* Properties of the mov nodes *)

\* C5: NodeMoveAdvanced::eval with an Indirect source or target returns an
\* UnsupportedOrInvalidAddressing failure, leaves the state unchanged and
\* does not panic.
C5_IndirectMoveIsReturnedAsFailure ==
    (/\ mov_node.kind = "Advanced"
     /\ \/ mov_node.source.register_type = "Indirect"
        \/ mov_node.target.register_type = "Indirect") =>
        /\ mov_result = "Err_UnsupportedOrInvalidAddressing"
        /\ state = mov_before

\* C6: mov $t,$s and mov $t,c return Ok, leave in register t the value of
\* register s before the call (or c), and change no other register.
C6_MoveChangesOnlyTheTarget ==
    /\ mov_node.kind = "Register" =>
          /\ mov_result = "Ok"
          /\ state[mov_node.target] = mov_before[mov_node.source]
          /\ \A r \in Registers : r # mov_node.target => state[r] = mov_before[r]
    /\ mov_node.kind = "Constant" =>
          /\ mov_result = "Ok"
          /\ state[mov_node.target] = mov_node.source
          /\ \A r \in Registers : r # mov_node.target => state[r] = mov_before[r]

\* mov $t,$s with s # t has overwritten a different value in register t.
C6_Witness ==
    /\ mov_node.kind = "Register"
    /\ mov_node.target # mov_node.source
    /\ mov_before[mov_node.target] # mov_before[mov_node.source]
    /\ state[mov_node.target] = mov_before[mov_node.source]

----------------------------------------------------------------------------
(* Properties of Genome::mutate and of the mutation operators *)

\* The row sequence of a genome: opcode, target, source and enabled flag of
\* every row, in order.
RowSequence(gv) ==
    [i \in DOMAIN gv |->
        <<gv[i].instruction_id, gv[i].target_type, gv[i].target_value,
          gv[i].source_type, gv[i].source_value, gv[i].enabled>>]

\* C7: Genome::mutate returns true if and only if the row sequence after the
\* call differs from the row sequence before the call.
C7_MutateReturnsWhetherTheGenomeChanged ==
    last_call.via_mutate =>
        (last_ok <=> RowSequence(genome_vec) # RowSequence(genome_before))

\* C8: whenever a mutation operator returns false, genome_vec is identical to
\* its value before the call.
C8_FalseLeavesTheGenomeIdentical ==
    (last_call # NoCall /\ ~last_ok) => genome_vec = genome_before

\* replace_source_constant_with_histogram had the histogram and an eligible
\* row, drew the value the row already has on every try and returned false.
C8_Witness ==
    /\ last_call.operator = "ReplaceSourceConstantWithHistogram"
    /\ ~last_ok
    /\ context.has_histogram_instruction_constant
    /\ ConstantSourceIndexes(genome_before) # {}
    /\ genome_vec = genome_before

\* The rows of a genome that are mutation_locked, in order.
LockedRows(gv) == SelectSeq(gv, LAMBDA item : item.mutation_locked)

\* a is a subsequence of b: the rows of a are in b, in the same order.
RECURSIVE IsSubsequence(_, _)
IsSubsequence(a, b) ==
    IF a = <<>> THEN TRUE
    ELSE IF b = <<>> THEN FALSE
    ELSE IF Head(a) = Head(b) THEN IsSubsequence(Tail(a), Tail(b))
    ELSE IsSubsequence(a, Tail(b))

\* C9: after any sequence of Genome::mutate calls every row that was
\* mutation_locked in the starting genome is still present with the same
\* fields, and the originally locked rows keep their relative order.
C9_LockedRowsSurviveInOrder ==
    IsSubsequence(LockedRows(genome_start), LockedRows(genome_vec))

\* Two mutations changed a genome that started with two different locked
\* rows, the last one a copy_line that duplicated a locked row.
C9_Witness ==
    /\ calls = MaxCalls
    /\ Len(LockedRows(genome_start)) = 2
    /\ genome_start[1] # genome_start[2]
    /\ genome_before # genome_start
    /\ last_call.operator = "CopyLine"
    /\ last_ok
    /\ Len(LockedRows(genome_vec)) > Len(LockedRows(genome_before))

\* The calls of the two operators that step a constant source by one.
IsConstantStep ==
    last_call.operator \in {"IncrementSourceValueWhereTypeIsConstant",
                            "DecrementSourceValueWhereTypeIsConstant"}

\* C10: the increment and decrement of a constant source never leave 0 in a
\* Divide, DivideIf or Modulo row: such a call returns false and the row
\* keeps its value; a mutation_locked row is never the row that is changed.
C10_DivisorConstantNeverBecomesZero ==
    IsConstantStep =>
        /\ Len(genome_vec) = Len(genome_before)
        /\ \A i \in DOMAIN genome_vec :
              genome_vec[i] # genome_before[i] =>
                 /\ ~genome_before[i].mutation_locked
                 /\ genome_vec[i].instruction_id \in {"Divide", "DivideIf", "Modulo"}
                       => genome_vec[i].source_value # 0
        /\ ~last_ok => genome_vec = genome_before

\* The decrement was called on `mod $0,1` next to a locked `add $1,0`: the
\* only row it may choose would become `mod $0,0`; it returned false and the
\* row kept 1.
C10_Witness ==
    /\ last_call.operator = "DecrementSourceValueWhereTypeIsConstant"
    /\ Len(genome_before) = 2
    /\ genome_before[1] = GenomeItem_new("Modulo", "Direct", 0, "Constant", 1)
    /\ genome_before[2].mutation_locked
    /\ genome_before[2].instruction_id = "Add"
    /\ ~last_ok
    /\ genome_vec[1].source_value = 1

\* The rows the increment can act on, as the claim C11 lists them: unlocked,
\* constant source below i32::MAX, opcode not seq, loop or unofficial
\* function, and not div, dif or mod about to get the constant 0.
IncrementableRows(gv) ==
    { i \in DOMAIN gv :
        /\ ~gv[i].mutation_locked
        /\ gv[i].source_type = "Constant"
        /\ gv[i].source_value < I32_MAX
        /\ gv[i].instruction_id \notin
              {"EvalSequence", "LoopBegin", "LoopEnd", "UnofficialLoopBeginSubtract",
               "UnofficialFunction"}
        /\ ~(gv[i].instruction_id \in {"Divide", "DivideIf", "Modulo"}
             /\ gv[i].source_value + 1 = 0) }

\* The rows among which the increment draws: unlocked, constant source,
\* opcode not seq, loop or unofficial function.
DrawnRows(gv) ==
    { i \in DOMAIN gv :
        /\ ~gv[i].mutation_locked
        /\ gv[i].source_type = "Constant"
        /\ gv[i].instruction_id \notin
              {"EvalSequence", "LoopBegin", "LoopEnd", "UnofficialLoopBeginSubtract",
               "UnofficialFunction"} }

\* The genome with the constant of row i one higher.
WithIncrementedRow(gv, i) == [gv EXCEPT ![i].source_value = @ + 1]

RunnableGenome(gv) ==
    \A i \in DOMAIN gv : gv[i].enabled => Runnable(gv[i])

\* The registers of the caller: those up to the largest one its rows use.
CallerRegisters(gv) == 0..MaxRegister(gv, 1)

\* The initial register files the two programs are compared on.
TestStates == { VmState(a, b) : a \in 0..2, b \in 0..1 }

\* The program of the genome before and after the call agree on every
\* register of the caller, from every initial register file.
SameBehaviour(before, after) ==
    \A st \in TestStates :
        \A r \in CallerRegisters(before) :
            RunGenome(before, st)[r] = RunGenome(after, st)[r]

\* C12: after mutate_inline_seq returned true, the program of the genome
\* before the call and the program of the genome after it leave identical
\* final values in every register visible to the caller.
C12_InliningPreservesBehaviour ==
    (/\ last_call.operator = "InlineSeq"
     /\ last_ok
     /\ RunnableGenome(genome_before)
     /\ RunnableGenome(genome_vec)) =>
        SameBehaviour(genome_before, genome_vec)

\* The nesting depth after the rows of a program, -1 once a loop end came
\* before its loop begin.
RECURSIVE LoopDepth(_, _)
LoopDepth(rows, depth) ==
    IF rows = <<>> THEN depth
    ELSE IF Head(rows).instruction_id \in {"LoopBegin", "UnofficialLoopBeginSubtract"}
    THEN LoopDepth(Tail(rows), depth + 1)
    ELSE IF Head(rows).instruction_id = "LoopEnd"
    THEN IF depth = 0 THEN 0 - 1 ELSE LoopDepth(Tail(rows), depth - 1)
    ELSE LoopDepth(Tail(rows), depth)

\* The program of the genome has a balanced LoopBegin/LoopEnd nesting.
Balanced(gv) == LoopDepth(to_parsed_program(gv), 0) = 0

\* C13: from a genome whose enabled rows are balanced, after any sequence of
\* Genome::mutate calls the program produced by to_parsed_program is still
\* balanced.
C13_MutationKeepsLoopsBalanced ==
    Balanced(genome_start) => Balanced(genome_vec)

----------------------------------------------------------------------------
(* Properties of the search scheduler *)

\* C14: the search always terminates: whatever the number of unsolved targets
\* and the size of the candidate pool, eventually the unsolved set is empty
\* or the deadline has been detected, and the mutation loop has exited (a
\* run that ends with an error has exited too).
C14_SearchTerminates ==
    <>(\/ search_pc = "failed"
       \/ /\ search_pc = "done"
          /\ scheduled_model_item_vec = <<>> \/ terminate_due_to_timeout)

\* A run result that is a full match.
FullMatch(result) ==
    /\ result.ok
    /\ result.count_train_correct > 0
    /\ result.count_train_incorrect = 0
    /\ result.count_test_empty = 0

\* Number of items of a vector that are the program with the given Rc.
CountProgram(vec, uid) == Cardinality({i \in DOMAIN vec : vec[i].uid = uid})

\* C15: each target is solved at most once: after save_solution succeeded for
\* a target no execution is made on it again (neither in the same batch nor
\* later), it is out of scheduled_model_item_vec between the batches, and
\* current_tasks holds at most one entry per target.
C15_TargetSolvedAtMostOnce ==
    /\ ~last_run.solved_before
    /\ search_pc = "batch" =>
          \A i \in model_index..Len(scheduled_model_item_vec) :
             scheduled_model_item_vec[i] \notin SolvedModels
    /\ search_pc \in {"loop", "mutate", "done", "failed"} =>
          \A i \in DOMAIN scheduled_model_item_vec :
             scheduled_model_item_vec[i] \notin SolvedModels
    /\ \A i, j \in DOMAIN current_tasks :
          i # j => current_tasks[i] # current_tasks[j]

\* A target has been solved, and in a later batch a candidate has been run
\* on another target.
C15_Witness ==
    /\ search_pc = "batch"
    /\ template_index > 0
    /\ last_run.model # 0
    /\ \E i \in DOMAIN save_log : save_log[i].model # last_run.model
    /\ Len(scheduled_program_item_vec) >= 2

\* C16: a solving candidate is folded into the seed pool exactly once: once
\* transfer_discovered_programs has run, every new candidate that
\* save_solution succeeded for is in program_item_vec exactly once and
\* discovered_program_item_vec is empty, and no program, a seed that solved
\* a target included, is in the pool twice.
C16_SolvingCandidateFoldedOnce ==
    /\ search_pc \in {"loop", "mutate", "done", "failed"} =>
          /\ discovered_program_item_vec = <<>>
          /\ \A i \in DOMAIN save_log :
                save_log[i].is_new_program =>
                   CountProgram(program_item_vec, save_log[i].program) = 1
    /\ \A i \in DOMAIN save_log :
          CountProgram(program_item_vec, save_log[i].program) <= 1
    /\ \A i \in DOMAIN program_item_vec :
          CountProgram(program_item_vec, program_item_vec[i].uid) = 1

\* The mutation loop is entered after a seed program solved one target and a
\* new candidate another.
C16_Witness ==
    /\ search_pc = "loop"
    /\ \E i, j \in DOMAIN save_log :
          save_log[i].is_new_program /\ ~save_log[j].is_new_program
    /\ Len(program_item_vec) = 2

\* C17: only full matches are accepted: save_solution is called only for a
\* run result with count_train_correct > 0, count_train_incorrect = 0 and
\* count_test_empty = 0; any other result leaves the target scheduled, and
\* every target taken out and every program added was a full match.
C17_OnlyFullMatchesAccepted ==
    /\ last_run.model # 0 =>
          /\ last_run.invoked => FullMatch(last_run.result)
          /\ ~FullMatch(last_run.result) =>
                /\ ~last_run.saved
                /\ \E i \in DOMAIN scheduled_model_item_vec :
                      scheduled_model_item_vec[i] = last_run.model
                /\ \A i \in DOMAIN remove_model_items :
                      remove_model_items[i] # last_run.model
                /\ last_run.model \notin SolvedModels
    /\ \A i \in DOMAIN save_log : FullMatch(save_log[i].result)
    /\ \A i \in DOMAIN remove_model_items : remove_model_items[i] \in SolvedModels
    /\ \A i \in DOMAIN discovered_program_item_vec :
          \E j \in DOMAIN save_log :
             save_log[j].program = discovered_program_item_vec[i].uid
    /\ \A i \in DOMAIN program_item_vec :
          program_item_vec[i].uid > MaxSeeds =>
             \E j \in DOMAIN save_log : save_log[j].program = program_item_vec[i].uid

\* A dangerous false positive (all train pairs correct, an empty test output)
\* has just been rejected, after another result was accepted.
C17_Witness ==
    /\ last_run.model # 0
    /\ last_run.result.ok
    /\ last_run.result.count_train_correct > 0
    /\ last_run.result.count_train_incorrect = 0
    /\ last_run.result.count_test_empty > 0
    /\ save_log # <<>>

\* The keys of the seed programs registered at start-up.
RegisteredSeedKeys ==
    {program_item_vec[i].bloom_key :
        i \in {k \in DOMAIN program_item_vec : program_item_vec[k].uid <= MaxSeeds}}

\* C18: novelty filter: no candidate returned by create_mutations_of_program
\* has the key of a seed program registered at start-up or of a candidate
\* returned earlier, and the key of every returned candidate is in the filter.
C18_NoveltyFilter ==
    /\ \A i, j \in DOMAIN returned_keys :
          i # j => returned_keys[i] # returned_keys[j]
    /\ \A i \in DOMAIN returned_keys :
          /\ returned_keys[i] \notin RegisteredSeedKeys
          /\ returned_keys[i] \in bloom
    /\ RegisteredSeedKeys \subseteq bloom

\* Candidates have been returned in two rounds, the later one for the second
\* program of the pool.
C18_Witness ==
    /\ search_pc = "mutate"
    /\ mutation_index = 1
    /\ template_index = 2
    /\ Len(returned_keys) >= 2
    /\ result_program_item_vec # <<>>
    /\ RegisteredSeedKeys # {}

\* C19: create_mutations_of_program returns number_of_programs_to_generate
\* programs, and create_mutations_of_all_programs that number times the
\* number of programs of the pool.
C19_ReturnedLengths ==
    /\ last_created.called => last_created.len = number_of_programs_to_generate
    /\ (search_pc \in {"batch", "reschedule"} /\ template_index > 0) =>
          Len(scheduled_program_item_vec) =
             number_of_programs_to_generate * Len(program_item_vec)

\* C20: reproducible randomness: the seed of a mutation attempt is
\* mutation_index * 0x10000 + iteration + 1, whichever program is mutated,
\* however many programs the pool has and whatever the earlier attempts gave,
\* and no other pair of round and iteration (0..99) has the same seed.
C20_SeedOfRoundAndIteration ==
    (search_pc = "mutate" /\ iteration > 0) =>
       /\ random_seed = mutation_index * 65536 + (iteration - 1) + 1
       /\ \A round \in 0..MaxRounds, iter \in 0..(max_number_of_iterations - 1) :
             RandomSeed(round, iter) = random_seed =>
                round = mutation_index /\ iter = iteration - 1

\* The last attempt of round 1 on the second program of the pool, after a
\* candidate was made.
C20_Witness ==
    /\ search_pc = "mutate"
    /\ mutation_index = 1
    /\ template_index = 2
    /\ iteration = max_number_of_iterations
    /\ random_seed = 65636
    /\ returned_keys # <<>>

----------------------------------------------------------------------------
(* Further properties of the genome *)

\* Number of enabled rows among the first i rows.
EnabledUpTo(gv, i) == Cardinality({j \in 1..i : gv[j].enabled})

\* C21: to_parsed_program emits exactly the enabled rows, in genome order,
\* with line_number 0, 1, 2, ...; mutate_enabled flips the flag of one row
\* and leaves every row at its position, so a row that is enabled again is
\* back at its place among the enabled rows.
C21_ProgramIsTheEnabledRows ==
    LET program == InstructionVec(genome_vec, 0)
    IN /\ Len(program) = EnabledUpTo(genome_vec, Len(genome_vec))
       /\ \A i \in DOMAIN genome_vec :
             genome_vec[i].enabled =>
                LET k == EnabledUpTo(genome_vec, i)
                IN /\ program[k].line_number = k - 1
                   /\ program[k].instruction_id = genome_vec[i].instruction_id
                   /\ program[k].parameter_vec[1].parameter_value = genome_vec[i].target_value
                   /\ program[k].parameter_vec[2].parameter_value = genome_vec[i].source_value
       /\ (last_call.operator = "ToggleEnabled" /\ last_ok) =>
             \E i \in DOMAIN genome_before :
                genome_vec = [genome_before EXCEPT ![i].enabled = ~@]

\* A row was disabled by one call and enabled again by the next: the genome
\* is the starting genome again, and the row stands before another enabled row.
C21_Witness ==
    /\ calls = 2
    /\ last_call.operator = "ToggleEnabled"
    /\ last_ok
    /\ genome_vec = genome_start
    /\ \E i, j \in DOMAIN genome_vec :
          /\ i < j
          /\ ~genome_before[i].enabled
          /\ genome_vec[i].enabled
          /\ genome_vec[j].enabled

NoConstantZeroDivisor(gv) ==
    \A i \in DOMAIN gv :
       ~(/\ gv[i].instruction_id \in {"Divide", "DivideIf", "Modulo"}
         /\ gv[i].source_type = "Constant"
         /\ gv[i].source_value = 0)

\* C23: no mutation creates a constant zero divisor: when the starting genome
\* has no Divide, DivideIf or Modulo row with constant source 0, the genome
\* has none after any calls of Genome::mutate, whatever the histograms hold.
C23_NoMutationCreatesZeroDivisor ==
    NoConstantZeroDivisor(genome_start) => NoConstantZeroDivisor(genome_vec)

\* The loop rows of a genome, in order.
LoopRows(gv) == SelectSeq(gv, LAMBDA item : item.instruction_id \in LoopIds)

\* The operators the claim C24 is about, by their names in Genome::mutate.
LoopKeepingOperators ==
    {"SwapRows", "ToggleEnabled", "CopyLine", "ReplaceLineWithHistogram",
     "InsertLineWithHistogram"}

\* C24: mutate_swap_rows, mutate_enabled, copy_line,
\* replace_line_with_histogram and insert_line_with_histogram never touch the
\* loop structure: the loop rows are the same rows in the same order after
\* the call, the operators that keep the length leave every loop row at its
\* index, and a program with balanced loops keeps them balanced.
C24_LoopRowsAreNeverTouched ==
    last_call.operator \in LoopKeepingOperators =>
       /\ LoopRows(genome_vec) = LoopRows(genome_before)
       /\ Len(genome_vec) = Len(genome_before) =>
             \A i \in DOMAIN genome_before :
                genome_before[i].instruction_id \in LoopIds =>
                   genome_vec[i] = genome_before[i]
       /\ Balanced(genome_before) => Balanced(genome_vec)

\* copy_line has put a copy of a row into a genome that has a loop.
C24_Witness ==
    /\ last_call.operator = "CopyLine"
    /\ last_ok
    /\ Len(LoopRows(genome_before)) = 2
    /\ Balanced(genome_before)
    /\ Len(genome_vec) = Len(genome_before) + 1

\* The direct register indexes the enabled rows of a genome use.
UsedRegisters(gv) ==
    { gv[i].target_value :
        i \in { j \in DOMAIN gv : gv[j].enabled /\ gv[j].target_type = "Direct" } }
    \cup
    { gv[i].source_value :
        i \in { j \in DOMAIN gv : gv[j].enabled /\ gv[j].source_type = "Direct" } }

\* The largest of them, 0 when there is none.
LargestUsedRegister(gv) ==
    CHOOSE m \in UsedRegisters(gv) \cup {0} : \A r \in UsedRegisters(gv) \cup {0} : r <= m

\* The direct register indexes above 0 of a callee.
CalleeRegisters(program) ==
    { program[k].target_value :
        k \in { j \in DOMAIN program : program[j].target_type = "Direct"
                                        /\ program[j].target_value > 0 } }
    \cup
    { program[k].source_value :
        k \in { j \in DOMAIN program : program[j].source_type = "Direct"
                                        /\ program[j].source_value > 0 } }

\* Register k of the callee as the claim C25 says it is renumbered.
Renumbered(k, in_out, m) == IF k = 0 THEN in_out ELSE k + m

\* `after` is `before` with the seq row i replaced by one `mov $fresh,0` per
\* fresh register followed by the rows of the callee, renumbered.
InlinedAt(before, after, i) ==
    LET program == load_program_with_id(before[i].source_value)[1]
        m == LargestUsedRegister(before)
        fresh == { k + m : k \in CalleeRegisters(program) }
        clears == Cardinality(fresh)
    IN /\ Len(after) = Len(before) - 1 + clears + Len(program)
       /\ \A j \in 1..(i - 1) : after[j] = before[j]
       /\ \A j \in (i + 1)..Len(before) :
             after[j - 1 + clears + Len(program)] = before[j]
       /\ \A f \in fresh :
             /\ \A r \in UsedRegisters(before) : f > r
             /\ Cardinality({ j \in i..(i + clears - 1) :
                                after[j] = GenomeItem_new("Move", "Direct", f,
                                                          "Constant", 0) }) = 1
       /\ \A k \in DOMAIN program :
             LET row == after[i + clears + k - 1]
             IN /\ row.instruction_id = program[k].instruction_id
                /\ row.target_type = program[k].target_type
                /\ row.source_type = program[k].source_type
                /\ row.target_value =
                      Renumbered(program[k].target_value, before[i].target_value, m)
                /\ row.source_value =
                      IF program[k].source_type = "Direct"
                      THEN Renumbered(program[k].source_value, before[i].target_value, m)
                      ELSE program[k].source_value

\* C25: inline renumbering avoids collisions and clears fresh registers:
\* after mutate_inline_seq returned true, a seq row of the genome has been
\* replaced by the rows of its callee with every direct register k > 0
\* renumbered to k + M (M the largest direct register of the enabled rows of
\* the caller, so k + M is above all of them) and register 0 renumbered to
\* the target of the seq row, preceded by exactly one `mov $fresh,0` for
\* every fresh register.
C25_InlineRenumbersAndClears ==
    (last_call.operator = "InlineSeq" /\ last_ok) =>
       \E i \in DOMAIN genome_before :
          /\ genome_before[i].instruction_id = "EvalSequence"
          /\ genome_before[i].source_type = "Constant"
          /\ load_program_with_id(genome_before[i].source_value) # <<>>
          /\ InlinedAt(genome_before, genome_vec, i)

\* `mov $1,$0 ; seq $0,40` has been inlined: the callee uses $1 and $2, which
\* have become $2 and $3 and are cleared first.
C25_Witness ==
    /\ last_call.operator = "InlineSeq"
    /\ last_ok
    /\ genome_before = << GenomeItem_new("Move", "Direct", 1, "Direct", 0),
                          GenomeItem_new("EvalSequence", "Direct", 0, "Constant", 40) >>
    /\ Len(genome_vec) = 6
    /\ genome_vec[6] = GenomeItem_new("Add", "Direct", 0, "Direct", 3)

\* The seq rows that may be mutated and that are part of the program.
InlinableRows(gv) ==
    { i \in DOMAIN gv : /\ gv[i].instruction_id = "EvalSequence"
                        /\ gv[i].source_type = "Constant"
                        /\ ~gv[i].mutation_locked
                        /\ gv[i].enabled }

\* C26: mutate_inline_seq only replaces a seq row that is neither
\* mutation_locked nor disabled; for a genome without such a row it returns
\* false and leaves genome_vec unchanged.
C26_InlineSparesLockedAndDisabledRows ==
    (last_call.operator = "InlineSeq") =>
       /\ last_ok =>
             \E i \in InlinableRows(genome_before) :
                InlinedAt(genome_before, genome_vec, i)
       /\ InlinableRows(genome_before) = {} =>
             ~last_ok /\ genome_vec = genome_before

\* Further properties of the search scheduler.

\* A step that executes a candidate: every execution is recorded in last_run.
Executes == last_run' # last_run /\ last_run' # NoRun

\* C27: the deadline is checked between executions: the check runs right
\* before every execution of a candidate, so none starts at or after the
\* deadline; the check that sees the deadline sets terminate_due_to_timeout;
\* once it is set no candidate is executed, in this batch or a later one;
\* and after the reschedule that follows, the targets solved in the
\* interrupted batch are no longer scheduled.
C27_DeadlineCheckedBetweenExecutions ==
    /\ [][ /\ Executes => clock < ExecuteTimeLimit /\ ~terminate_due_to_timeout
           /\ (search_pc = "batch" /\ clock >= ExecuteTimeLimit)
                 => (terminate_due_to_timeout' /\ last_run' = last_run
                     /\ save_log' = save_log /\ search_pc' = "reschedule")
           /\ terminate_due_to_timeout
                 => (terminate_due_to_timeout' /\ save_log' = save_log
                     /\ search_pc' \notin {"batch", "mutate"}) ]_vars
    /\ [](terminate_due_to_timeout /\ search_pc \in {"loop", "done", "failed"}
             => /\ remove_model_items = <<>>
                /\ \A i \in DOMAIN scheduled_model_item_vec :
                      scheduled_model_item_vec[i] \notin SolvedModels)

\* The first batch solved its first target, was interrupted by the deadline
\* before the second, and the search has ended with the second target alone.
C27_Witness ==
    /\ terminate_due_to_timeout
    /\ search_pc = "done"
    /\ template_index = 0
    /\ Len(save_log) = 1
    /\ Len(scheduled_model_item_vec) = 1
    /\ scheduled_model_item_vec[1] \notin SolvedModels

\* Further properties of Genome::mutate.

\* C28: the message log is append-only and grows by exactly one entry per
\* call of mutate: `mutate: <operator>` when the call returns true and
\* `mutate: <operator>, no change` when it returns false; the entries it
\* held before the call stay as they were, in their order.
C28_MessageLogIsAppendOnly ==
    [][ IF calls' = calls + 1 /\ last_call'.via_mutate
        THEN /\ Len(message_vec') = Len(message_vec) + 1
             /\ \A i \in DOMAIN message_vec : message_vec'[i] = message_vec[i]
             /\ message_vec'[Len(message_vec')] =
                   IF last_ok' THEN <<"mutate: ", last_call'.operator>>
                   ELSE <<"mutate: ", last_call'.operator, ", no change">>
        ELSE message_vec' = message_vec ]_vars

\* Two calls of mutate, the first with a change and the second without one.
C28_Witness ==
    /\ calls = 2
    /\ last_call.via_mutate
    /\ ~last_ok
    /\ Len(message_vec) = 3
    /\ message_vec[1] = TemplateMessage
    /\ Len(message_vec[2]) = 2
    /\ message_vec[3] = <<"mutate: ", last_call.operator, ", no change">>

\* Every Direct or Indirect target and source holds a register index >= 0.
RegistersNonNegative(gv) ==
    \A i \in DOMAIN gv :
       /\ gv[i].target_type \in {"Direct", "Indirect"} => gv[i].target_value >= 0
       /\ gv[i].source_type \in {"Direct", "Indirect"} => gv[i].source_value >= 0

\* C29: register operands stay non-negative: from a genome whose Direct and
\* Indirect targets and sources are all >= 0, every genome the calls of
\* mutate lead to has them all >= 0, whatever the context suggests; a
\* decrement of a register index only happens on a row whose index was above 0.
C29_RegistersStayNonNegative ==
    RegistersNonNegative(genome_start) =>
       /\ RegistersNonNegative(genome_vec)
       /\ (last_call.operator = "DecrementSourceValueWhereTypeIsDirect" /\ last_ok) =>
             \E i \in DOMAIN genome_before :
                /\ genome_before[i].source_value > 0
                /\ genome_vec = [genome_before EXCEPT ![i].source_value = @ - 1]
       /\ (last_call.operator = "DecrementTargetValueWhereTypeIsDirect" /\ last_ok) =>
             \E i \in DOMAIN genome_before :
                /\ genome_before[i].target_value > 0
                /\ genome_vec = [genome_before EXCEPT ![i].target_value = @ - 1]

\* `mov $1,$0 ; add $0,1` with every table loaded: the decrement of a source
\* register has found no row, its only Direct source being $0.
C29_Witness ==
    /\ genome_before = << GenomeItem_new("Move", "Direct", 1, "Direct", 0),
                          GenomeItem_new("Add", "Direct", 0, "Constant", 1) >>
    /\ context.has_suggest_source
    /\ last_call.operator = "DecrementSourceValueWhereTypeIsDirect"
    /\ ~last_ok
    /\ genome_vec = genome_before

-----------------------------------------------------------------------------
(* The compact text of an image, prompt_compact.rs *)

MaxImageWidth == 11

MaxImageHeight == 11

MaxStep == 1

\* The largest colour of a pixel of a task.
MaxColor == 9

\* TextToImage::convert, line 77: the colour of a pixel no row has set.
fill_color == 255

\* TextToImage::convert, lines 73-74: the largest width and height.
MaxImageSize == 40

U8_MAX == 255

\* A string is a sequence of characters, a character a string of length one.
DigitChars == <<"0", "1", "2", "3", "4", "5", "6", "7", "8", "9">>

\* \d
IsDigit(c) == \E v \in 1..10 : DigitChars[v] = c

\* \w: the letters that occur, and the digits.
IsWord(c) == IsDigit(c) \/ c \in {"w", "i", "d", "t", "h", "e", "g"}

\* char::to_digit(10)
to_digit(c) == (CHOOSE v \in 1..10 : DigitChars[v] = c) - 1

\* format!("{}", n) of an unsigned number.
RECURSIVE Decimal(_)
Decimal(n) ==
    IF n < 10 THEN <<DigitChars[n + 1]>>
    ELSE Decimal(n \div 10) \o <<DigitChars[(n % 10) + 1]>>

Str_width == <<"w", "i", "d", "t", "h">>

Str_height == <<"h", "e", "i", "g", "h", "t">>

Str_comma_height == <<",">> \o Str_height

\* The strings of a vector one after the other.
RECURSIVE Concat(_)
Concat(items) == IF items = <<>> THEN <<>> ELSE Head(items) \o Concat(Tail(items))

\* items.join(",")
RECURSIVE Join(_)
Join(items) ==
    IF items = <<>> THEN <<>>
    ELSE IF Len(items) = 1 THEN items[1]
    ELSE items[1] \o <<",">> \o Join(Tail(items))

\* Image::get(x, y).unwrap_or(255), x and y counted from 0.
PixelOr255(img, x, y) ==
    IF x < img.width /\ y < img.height THEN img.pixels[y + 1][x + 1] ELSE 255

\* ImageToText::convert
ImageToText_convert(img, include_size) ==
    LET size == IF include_size
                THEN << Str_width \o Decimal(img.width),
                        Str_height \o Decimal(img.height) >>
                ELSE <<>>
        rows == [ y \in 1..img.height |->
                    Concat([ x \in 1..img.width |->
                               Decimal(PixelOr255(img, x - 1, y - 1)) ]) ]
    IN Join(size \o rows)

\* \d+ at p, greedy: the index of its last digit, p - 1 when s[p] is no digit.
RECURSIVE DigitsEnd(_, _)
DigitsEnd(s, p) ==
    IF p <= Len(s) /\ IsDigit(s[p]) THEN DigitsEnd(s, p + 1) ELSE p - 1

\* \w+ at p, greedy: the index of its last character, p - 1 when there is none.
RECURSIVE WordEnd(_, _)
WordEnd(s, p) ==
    IF p <= Len(s) /\ IsWord(s[p]) THEN WordEnd(s, p + 1) ELSE p - 1

HasLiteral(s, p, literal) ==
    /\ p + Len(literal) - 1 <= Len(s)
    /\ SubSeq(s, p, p + Len(literal) - 1) = literal

\* (?:,(:?\d+))+ at p, greedy: the index of the last character of the last
\* group, p - 1 when no group matches at p.
RECURSIVE GroupsEnd(_, _)
GroupsEnd(s, p) ==
    IF p <= Len(s) /\ s[p] = ","
    THEN LET q == IF p + 1 <= Len(s) /\ s[p + 1] = ":" THEN p + 2 ELSE p + 1
             e == DigitsEnd(s, q)
         IN IF e >= q THEN GroupsEnd(s, e + 1) ELSE p - 1
    ELSE p - 1

\* EXTRACT_IMAGE_DATA at p: the index of the last character of the match, 0
\* when the expression does not match at p.
ImageDataEnd(s, p) ==
    IF ~HasLiteral(s, p, Str_width) THEN 0
    ELSE LET a == DigitsEnd(s, p + Len(Str_width))
         IN IF a < p + Len(Str_width) THEN 0
            ELSE IF ~HasLiteral(s, a + 1, Str_comma_height) THEN 0
            ELSE LET b == a + 1 + Len(Str_comma_height)
                     c == DigitsEnd(s, b)
                 IN IF c < b THEN 0
                    ELSE IF GroupsEnd(s, c + 1) <= c THEN 0
                    ELSE GroupsEnd(s, c + 1)

\* EXTRACT_IMAGE_DATA.captures(input), group 1: the leftmost match, <<>> for
\* None.
EXTRACT_IMAGE_DATA(input) ==
    LET starts == { p \in 1..Len(input) : ImageDataEnd(input, p) > 0 }
    IN IF starts = {} THEN <<>>
       ELSE LET p == CHOOSE m \in starts : \A n \in starts : m <= n
            IN << SubSeq(input, p, ImageDataEnd(input, p)) >>

\* EXTRACT_STRING_VALUE.captures_iter from p on: the groups 1 and 2 of the
\* matches of (\w+)(\d+), left to right. \w+ takes the whole run of word
\* characters, digits included, and gives back only until \d+ has a digit:
\* group 2 starts at the last digit of the run.
RECURSIVE EXTRACT_STRING_VALUE(_, _)
EXTRACT_STRING_VALUE(s, p) ==
    IF p > Len(s) THEN <<>>
    ELSE LET q == WordEnd(s, p)
             digits == { k \in (p + 1)..q : IsDigit(s[k]) }
         IN IF q < p THEN EXTRACT_STRING_VALUE(s, p + 1)
            ELSE IF digits = {} THEN EXTRACT_STRING_VALUE(s, q + 1)
            ELSE LET k == CHOOSE m \in digits : \A n \in digits : n <= m
                     e == DigitsEnd(s, k)
                 IN << [capture1 |-> SubSeq(s, p, k - 1),
                        capture2 |-> SubSeq(s, k, e)] >>
                    \o EXTRACT_STRING_VALUE(s, e + 1)

\* The number a string of digits stands for.
RECURSIVE DecimalValue(_)
DecimalValue(digits) ==
    IF digits = <<>> THEN 0
    ELSE 10 * DecimalValue(SubSeq(digits, 1, Len(digits) - 1))
         + to_digit(digits[Len(digits)])

\* str::parse::<u8>: <<>> for an error.
parse_u8(digits) ==
    IF Len(digits) > 9 THEN <<>>
    ELSE IF DecimalValue(digits) > U8_MAX THEN <<>>
    ELSE <<DecimalValue(digits)>>

\* Lines 34-49: the loop over the captures; `found` holds found_width and
\* found_height, and whether a value did not parse.
RECURSIVE FoundSize(_, _)
FoundSize(captures, found) ==
    IF captures = <<>> THEN found
    ELSE LET value == parse_u8(Head(captures).capture2)
         IN IF value = <<>> THEN [found EXCEPT !.error = TRUE]
            ELSE IF Head(captures).capture1 = Str_width
            THEN FoundSize(Tail(captures), [found EXCEPT !.width = value])
            ELSE IF Head(captures).capture1 = Str_height
            THEN FoundSize(Tail(captures), [found EXCEPT !.height = value])
            ELSE FoundSize(Tail(captures), found)

\* str::split(","): the items between the commas, from p on.
RECURSIVE Split(_, _)
Split(s, p) ==
    LET commas == { k \in p..Len(s) : s[k] = "," }
    IN IF commas = {} THEN << SubSeq(s, p, Len(s)) >>
       ELSE LET k == CHOOSE m \in commas : \A n \in commas : m <= n
            IN << SubSeq(s, p, k - 1) >> \o Split(s, k + 1)

\* ALL_DIGITS.is_match(item)
ALL_DIGITS(item) == item # <<>> /\ \A i \in DOMAIN item : IsDigit(item[i])

Largest(numbers) == CHOOSE m \in numbers : \A n \in numbers : n <= m

Smallest(numbers) == CHOOSE m \in numbers : \A n \in numbers : m <= n

\* TextToImage::convert. width_min stays usize::MAX and width_max 0 when
\* there is no row of pixels, so they differ then.
TextToImage_convert(input) ==
    LET capture == EXTRACT_IMAGE_DATA(input)
    IN IF capture = <<>> THEN [ok |-> FALSE, error |-> "no image data found"]
       ELSE
       LET input_trimmed == capture[1]
           found == FoundSize(EXTRACT_STRING_VALUE(input_trimmed, 1),
                              [width |-> <<>>, height |-> <<>>, error |-> FALSE])
       IN IF found.error THEN [ok |-> FALSE, error |-> "value"]
          ELSE IF found.width = <<>> THEN [ok |-> FALSE, error |-> "width"]
          ELSE IF found.height = <<>> THEN [ok |-> FALSE, error |-> "height"]
          ELSE
          LET field_width == found.width[1]
              field_height == found.height[1]
              rows == SelectSeq(Split(input_trimmed, 1), ALL_DIGITS)
              lengths == { Len(rows[i]) : i \in DOMAIN rows }
              width_max == IF rows = <<>> THEN 0 ELSE Largest(lengths)
              same_min_max == rows # <<>> /\ Smallest(lengths) = width_max
              pixeldata_height == Len(rows)
              same_width == same_min_max /\ width_max = field_width
              same_height == pixeldata_height = field_height
              same_size == same_width /\ same_height
              width == Smallest({Largest({field_width, width_max}), MaxImageSize})
              height == Smallest({Largest({field_height, pixeldata_height}),
                                  MaxImageSize})
              pixels == [ y \in 1..height |->
                            [ x \in 1..width |->
                                IF y <= Len(rows) /\ x <= Len(rows[y])
                                THEN to_digit(rows[y][x]) ELSE fill_color ] ]
              problems ==
                 (IF ~same_min_max THEN <<"Inconsistent width of pixeldata rows">>
                  ELSE <<>>)
                 \o
                 (IF ~same_size THEN <<"There is a mismatch between size of the image, and the pixel data">>
                  ELSE <<>>)
          IN [ok |-> TRUE,
              image |-> [width |-> width, height |-> height, pixels |-> pixels],
              status |-> IF problems = <<>> THEN <<>> ELSE <<problems>>]

\* An image whose colours go up by step_x along a row and by step_y down a
\* column, from `first` at the top left.
Ramp(width, height, first, step_x, step_y) ==
    [width |-> width, height |-> height,
     pixels |-> [ y \in 1..height |->
                    [ x \in 1..width |->
                        (first + (x - 1) * step_x + (y - 1) * step_y)
                           % (MaxColor + 1) ] ]]

Images ==
    { Ramp(width, height, first, step_x, step_y) :
        width \in 1..MaxImageWidth, height \in 1..MaxImageHeight,
        first \in 0..MaxColor, step_x \in 0..MaxStep, step_y \in 0..MaxStep }

PromptInit ==
    /\ image \in Images
    /\ text = <<>>
    /\ actual = NoActual
    /\ prompt_pc = "image"
    /\ state = ZeroState
    /\ LoopIdle
    /\ MoveIdle
    /\ GenomeIdle
    /\ SearchIdle

\* PromptCompactSerializer::to_prompt, lines 149 and 166: the text of an image.
Serialize ==
    /\ prompt_pc = "image"
    /\ text' = ImageToText_convert(image, TRUE)
    /\ prompt_pc' = "text"
    /\ UNCHANGED <<image, actual, state, loop_vars, mov_vars, genome_vars, search_vars>>

\* TextToImage::convert on that text.
Deserialize ==
    /\ prompt_pc = "text"
    /\ actual' = TextToImage_convert(text)
    /\ prompt_pc' = "converted"
    /\ UNCHANGED <<image, text, state, loop_vars, mov_vars, genome_vars, search_vars>>

PromptNext == Serialize \/ Deserialize

\* An image is written as text and the text is read back.
SpecPrompt == PromptInit /\ [][PromptNext]_vars

\* C30: the compact text of an image round-trips: for every image with a
\* width and a height from 1 to 40 and pixels from 0 to 9,
\* TextToImage::convert of ImageToText::convert(image, true) is Ok, the image
\* it returns equals the original and the problem status is None.
C30_CompactTextRoundTrip ==
    prompt_pc = "converted" =>
       /\ actual.ok
       /\ actual.image = image
       /\ actual.status = <<>>

====
